---- MODULE Spec2Model ----
(***************************************************************************)
(* Keyed list reconciliation of the repeat directive                       *)
(* (src/src/directives/repeat.ts) over the node range utilities            *)
(* (src/src/lib/dom.ts).                                                   *)
(*                                                                         *)
(* One container part is rendered into repeatedly.  Arrays are functions   *)
(* over 0..len-1, as in the source; the child list of the container is a   *)
(* sequence of nodes.  A reconcile call is a sequence of steps: Call,      *)
(* one step per iteration of each of its three loops, then Finish.         *)
(*                                                                         *)
(* Further specifications run repeat without a key function (SpecNoKey),   *)
(* on a part that is no NodePart (SpecUsage) and with a removal handler    *)
(* (SpecHook), call removePart (SpecRemoval) and reparentNodes             *)
(* (SpecReparent) on their own, call templateFactory of                    *)
(* src/unnamed/part_000 (SpecTemplates), the closure of unsafeHTML of      *)
(* src/src/directives/unsafe-html.ts on one part (SpecUnsafe) and the      *)
(* cache directive of src/packages/lit-html/src/directives/cache.ts on     *)
(* one container part (SpecCache).                                         *)
(***************************************************************************)
EXTENDS Integers, Sequences, FiniteSets, TLC

\* Bounds of the model.
MaxLen == 4
NumKeys == 4

Keys == 1..NumKeys

\* The items of the lists rendered without a key function.
NumItems == 2

\* The TemplateStringsArray objects given to templateFactory.
NumStrings == 4

\* The calls of unsafeHTML followed for one part.
MaxCalls == 5

\* The strings arrays of the template results given to cache.
NumCached == 3

(***************************************************************************)
(* Values of the JavaScript heap.                                          *)
(***************************************************************************)

\* A NodePart object.  It is named by the key it was created for and a
\* generation that tells it from every other part still referenced.
Undef == [key |-> -2, gen |-> 0]
Null == [key |-> -1, gen |-> 0]

IsPart(p) == p # Undef /\ p # Null

NoValue == [item |-> -1, index |-> -1]

\* DOM nodes: the two markers of a part, the node a commit rendered
\* between them, and the two markers of the container part.
NullNode == [t |-> "null", part |-> Undef, val |-> NoValue]
ContainerStart == [t |-> "cstart", part |-> Undef, val |-> NoValue]
ContainerEnd == [t |-> "cend", part |-> Undef, val |-> NoValue]

startNode(p) == [t |-> "start", part |-> p, val |-> NoValue]
endNode(p) == [t |-> "end", part |-> p, val |-> NoValue]
contentNode(p, v) == [t |-> "content", part |-> p, val |-> v]

\* Arrays.
EmptyArray == [i \in {} |-> Undef]
Max(S) == CHOOSE x \in S : \A y \in S : y <= x
ArrLen(a) == IF DOMAIN a = {} THEN 0 ELSE Max(DOMAIN a) + 1
Get(a, i) == IF i \in DOMAIN a THEN a[i] ELSE Undef
Put(a, i, x) == [j \in (DOMAIN a) \cup {i} |-> IF j = i THEN x ELSE a[j]]

\* A Map, or undefined before it is assigned.
UndefinedMap == [defined |-> FALSE, map |-> [k \in {} |-> 0]]
MapHas(m, k) == k \in DOMAIN m.map

(***************************************************************************)
(* Node and src/src/lib/dom.ts                                             *)
(***************************************************************************)
InDom(d, n) == \E i \in 1..Len(d) : d[i] = n
IndexOf(d, n) == CHOOSE i \in 1..Len(d) : d[i] = n

nextSibling(d, n) ==
    IF InDom(d, n) /\ IndexOf(d, n) < Len(d) THEN d[IndexOf(d, n) + 1]
    ELSE NullNode

removeChild(d, n) == SelectSeq(d, LAMBDA x : x # n)

insertBefore(d, n, before) ==
    IF n = before THEN d
    ELSE LET r == removeChild(d, n)
         IN IF before = NullNode \/ ~InDom(r, before) THEN Append(r, n)
            ELSE LET i == IndexOf(r, before)
                 IN SubSeq(r, 1, i - 1) \o <<n>> \o SubSeq(r, i, Len(r))

RECURSIVE reparentNodes(_, _, _, _)
reparentNodes(d, start, end, before) ==
    IF start = end \/ start = NullNode THEN d
    ELSE LET n == nextSibling(d, start)
         IN reparentNodes(insertBefore(d, start, before), n, end, before)

RECURSIVE removeNodes(_, _, _)
removeNodes(d, start, end) ==
    IF start = end \/ start = NullNode THEN d
    ELSE LET n == nextSibling(d, start)
         IN removeNodes(removeChild(d, start), n, end)

(***************************************************************************)
(* NodePart (lit-html.js), as repeat.ts uses it.                            *)
(***************************************************************************)

\* NodePart.setValue(value) then commit(): the nodes between the part's
\* markers are replaced by the rendering of the value.
commit(d, part, value) ==
    insertBefore(removeNodes(d, nextSibling(d, startNode(part)), endNode(part)),
                 contentNode(part, value), endNode(part))

(***************************************************************************)
(* src/src/directives/repeat.ts: helpers                                   *)
(***************************************************************************)

\* The key function and the item template of a call: items are named by
\* their key, and the template renders the item and its index.
keyFn(item, index) == item
template(item, index) == [item |-> item, index |-> index]

\* createAndInsertPart ignoring beforePart: always at the container's end.
createAndInsertPartAtEnd(d, beforePart, newPart) ==
    LET beforeNode == ContainerEnd
        d1 == insertBefore(d, startNode(newPart), beforeNode)
    IN insertBefore(d1, endNode(newPart), beforeNode)

createAndInsertPart(d, beforePart, newPart) ==
    LET beforeNode == IF beforePart = Undef THEN ContainerEnd
                      ELSE startNode(beforePart)
        d1 == insertBefore(d, startNode(newPart), beforeNode)
    IN insertBefore(d1, endNode(newPart), beforeNode)

updatePart(d, part, value) == commit(d, part, value)

\* insertPartBefore taking part.endNode, not its next sibling, as the end of
\* the run.
insertPartBeforeUpToEnd(d, part, ref) ==
    LET beforeNode == IF IsPart(ref) THEN startNode(ref) ELSE ContainerEnd
        end == endNode(part)
    IN IF end # beforeNode
       THEN reparentNodes(d, startNode(part), end, beforeNode)
       ELSE d

\* insertPartBefore ignoring ref: always before the container's end marker.
insertPartBeforeIgnoresRef(d, part, ref) ==
    LET beforeNode == ContainerEnd
        end == nextSibling(d, endNode(part))
    IN IF end # beforeNode
       THEN reparentNodes(d, startNode(part), end, beforeNode)
       ELSE d

insertPartBefore(d, part, ref) ==
    LET beforeNode == IF IsPart(ref) THEN startNode(ref) ELSE ContainerEnd
        end == nextSibling(d, endNode(part))
    IN IF end # beforeNode
       THEN reparentNodes(d, startNode(part), end, beforeNode)
       ELSE d

IsMarker(n) == n.t \in {"start", "end", "cstart", "cend"}

\* The element that holds the container part's nodes.
ContainerElement == [t |-> "element", part |-> Undef, val |-> NoValue]

\* The error not thrown.
throwsNothing == "none"

\* Lines 95-97.
throwIllegalNodeModification == "illegal node mutation"

\* container.removeChild(node) fails unless node is a child of container.
commitRemoveNode(d, node, container) ==
    IF container = NullNode
    THEN [dom |-> d, error |-> throwIllegalNodeModification]
    ELSE IF node = NullNode THEN [dom |-> d, error |-> "TypeError"]
    ELSE IF container = ContainerElement /\ InDom(d, node)
         THEN [dom |-> removeChild(d, node), error |-> "none"]
         ELSE [dom |-> d, error |-> "NotFoundError"]

\* NodeRemovalToken.commit() calls commitRemoveNode(this.container,
\* this.target), whose parameters are (node, container).
tokenCommit(d, target, container) == commitRemoveNode(d, container, target)

\* A removal handler is "undefined", or one that calls preventDefault()
\* ("prevent"), one that does not ("commit"), or one that detaches the next
\* sibling of its target and calls preventDefault() ("detach").
Handlers == {"undefined", "commit", "prevent", "detach"}

NoHooks == <<>>

\* The handler is called with a token for target; attached tells whether the
\* target was a child of the container then.
Hook(d, target, nodeRemovalHandler) ==
    [target |-> target,
     prevented |-> nodeRemovalHandler \in {"prevent", "detach"},
     attached |-> InDom(d, target)]

\* The child list when the handler has returned.
AfterHook(d, target, nodeRemovalHandler) ==
    IF nodeRemovalHandler = "detach" /\ nextSibling(d, target) # NullNode
    THEN removeChild(d, nextSibling(d, target))
    ELSE d

\* end is start or a later sibling of start, or null.
Reaches(d, start, end) ==
    \/ start = end
    \/ InDom(d, start) /\ end = NullNode
    \/ InDom(d, start) /\ InDom(d, end) /\ IndexOf(d, start) < IndexOf(d, end)

\* The handler has not been called and no node has been visited.
NoLog == [hooks |-> NoHooks, visited |-> <<>>]

\* The loop is at node: attached tells whether node is a child of the
\* container now.
Visit(d, node) == [node |-> node, attached |-> InDom(d, node)]

\* Lines 78-92, with a handler.
RECURSIVE removeNodesWithHandler(_, _, _, _, _, _)
removeNodesWithHandler(d, container, node, end, nodeRemovalHandler, log) ==
    IF node = end
    THEN [dom |-> d, error |-> "none",
          hooks |-> log.hooks, visited |-> log.visited]
    ELSE IF node = NullNode
    THEN [dom |-> d, error |-> throwIllegalNodeModification,
          hooks |-> log.hooks, visited |-> Append(log.visited, Visit(d, node))]
    ELSE LET next == nextSibling(d, node)
             seen == Append(log.visited, Visit(d, node))
         IN IF IsMarker(node)
            THEN removeNodesWithHandler(d, container, next, end,
                                        nodeRemovalHandler,
                                        [log EXCEPT !.visited = seen])
            ELSE LET h == Hook(d, node, nodeRemovalHandler)
                     d1 == AfterHook(d, node, nodeRemovalHandler)
                     r == IF h.prevented THEN [dom |-> d1, error |-> "none"]
                          ELSE tokenCommit(d1, node, container)
                     called == [hooks |-> Append(log.hooks, h),
                                visited |-> seen]
                 IN IF r.error # "none"
                    THEN [dom |-> r.dom, error |-> r.error,
                          hooks |-> called.hooks, visited |-> called.visited]
                    ELSE removeNodesWithHandler(r.dom, container, next, end,
                                                nodeRemovalHandler, called)

\* Lines 72-93.  Without a handler the nodes are removed by removeNodes,
\* which fails when it runs off the sibling chain or has no container.
removeNodesWithRemovalHandler(d, container, start, end, nodeRemovalHandler) ==
    IF nodeRemovalHandler = "undefined"
    THEN IF start # end /\ container = NullNode
         THEN [dom |-> d, error |-> "TypeError",
               hooks |-> NoHooks, visited |-> <<>>]
         ELSE [dom |-> removeNodes(d, start, end),
               error |-> IF Reaches(d, start, end) THEN "none"
                         ELSE "TypeError",
               hooks |-> NoHooks, visited |-> <<>>]
    ELSE removeNodesWithHandler(d, container, start, end, nodeRemovalHandler,
                                NoLog)

\* part.startNode.parentNode
parentNode(d, n) == IF InDom(d, n) THEN ContainerElement ELSE NullNode

removePart(d, part, nodeRemovalHandler) ==
    removeNodesWithRemovalHandler(d, parentNode(d, startNode(part)),
                                  startNode(part),
                                  nextSibling(d, endNode(part)),
                                  nodeRemovalHandler)

generateMap(list, start, end) ==
    [defined |-> TRUE,
     map |-> [k \in {list[i] : i \in start..end} |->
                Max({i \in start..end : list[i] = k})]]

(***************************************************************************)
(* State                                                                   *)
(***************************************************************************)
VARIABLES
    dom,                \* child nodes of the container element, in order
    partListCache,      \* partListCache.get(containerPart)
    keyListCache,       \* keyListCache.get(containerPart)
    pc,                 \* "idle" between calls, "run" inside a call,
                        \* "returned" when the call has just ended
    onRemove,           \* the removal handler of the call
    oldParts, oldKeys, newParts, newValues, newKeys,
    newKeyToIndexMap, oldKeyToIndexMap,
    oldHead, oldTail, newHead, newTail,
    thrown,             \* the error the last call threw, or "none"
    \* What the running (or last) call has done so far.
    oldParts0,          \* oldParts as the call read it
    commits,            \* updatePart calls: <<part, value>>
    created,            \* parts made by createAndInsertPart
    removed,            \* parts given to removePart
    moved,              \* parts reparented by insertPartBefore
    rules,              \* the branch every loop iteration took
    dom0,               \* the child list as the call found it
    hooks,              \* invocations of the removal handler
    \* A call of a function of dom.ts or repeat.ts on its own.
    fn,
    \* src/unnamed/part_000
    templateCaches,     \* type -> (strings array -> Template)
    keyedTemplates,     \* joined strings -> Template
    templates,          \* the Template objects constructed so far
    handedOut,          \* what templateFactory has returned so far
    \* src/src/directives/unsafe-html.ts, for one part
    init, previousValue,
    partNodes,          \* the nodes between the markers of the part
    \* src/packages/lit-html/src/directives/cache.ts, for one container part
    _value, _templateCache,
    committedValue,     \* the committed value of the container part
    childParts          \* the child parts referenced, and where they are

cacheVars == <<partListCache, keyListCache>>
localVars == <<onRemove, oldParts, oldKeys, newParts, newValues, newKeys,
               newKeyToIndexMap, oldKeyToIndexMap,
               oldHead, oldTail, newHead, newTail>>
logVars == <<oldParts0, commits, created, removed, moved, rules, dom0, hooks>>
templateVars == <<templateCaches, keyedTemplates, templates, handedOut>>
unsafeVars == <<init, previousValue, partNodes>>
cacheDirectiveVars == <<_value, _templateCache, committedValue, childParts>>
directiveVars == <<unsafeVars, cacheDirectiveVars>>
otherVars == <<fn, templateVars, directiveVars>>
vars == <<dom, cacheVars, pc, localVars, thrown, logVars, otherVars>>

NoCache == [defined |-> FALSE, list |-> EmptyArray]

Range(a) == {a[i] : i \in DOMAIN a}
SeqRange(q) == {q[i] : i \in 1..Len(q)}

\* The key sequences a call is given: at most MaxLen items, keys unique.
ItemLists ==
    UNION {{a \in [0..(n - 1) -> Keys] :
              \A i, j \in 0..(n - 1) : a[i] = a[j] => i = j} : n \in 0..MaxLen}

\* new NodePart(...): an object distinct from every part still referenced.
InUse ==
    Range(oldParts0) \cup Range(newParts) \cup SeqRange(created)
        \cup {dom[i].part : i \in 1..Len(dom)}
NewPart(key) ==
    [key |-> key,
     gen |-> CHOOSE g \in 0..(2 * MaxLen + 1) :
                /\ [key |-> key, gen |-> g] \notin InUse
                /\ \A h \in 0..(g - 1) : [key |-> key, gen |-> h] \in InUse]

\* No call is running: the locals of the directive body do not exist.
NoCall ==
    /\ onRemove = "undefined"
    /\ oldParts = EmptyArray
    /\ oldKeys = EmptyArray
    /\ newParts = EmptyArray
    /\ newValues = EmptyArray
    /\ newKeys = EmptyArray
    /\ newKeyToIndexMap = UndefinedMap
    /\ oldKeyToIndexMap = UndefinedMap
    /\ oldHead = 0
    /\ oldTail = -1
    /\ newHead = 0
    /\ newTail = -1
    /\ thrown = "none"
    /\ oldParts0 = EmptyArray
    /\ commits = <<>>
    /\ created = <<>>
    /\ removed = <<>>
    /\ moved = <<>>
    /\ rules = <<>>
    /\ dom0 = <<>>
    /\ hooks = <<>>

\* No function is being called on its own.
NoFn == [name |-> "none"]

\* templateCaches and keyedTemplates are empty Maps when the module loads.
NoTemplates ==
    /\ templateCaches = [type \in {} |-> 0]
    /\ keyedTemplates = [key \in {} |-> 0]
    /\ templates = <<>>
    /\ handedOut = {}

\* A value that is undefined.
Undefined == [type |-> "undefined", id |-> "", strings |-> 0, h |-> 0]

\* The closure of unsafeHTML for a part (lines 27-28) and the instance of
\* CacheDirective for a container part (lines 42-43) as they are created;
\* nothing has been committed to either part.
NoDirectives ==
    /\ init = FALSE
    /\ previousValue = Undefined
    /\ partNodes = <<>>
    /\ _value = Undefined
    /\ _templateCache = [strings \in {} |-> <<>>]
    /\ committedValue = <<>>
    /\ childParts = [part \in {} |-> 0]

Init ==
    /\ dom = <<ContainerStart, ContainerEnd>>
    /\ partListCache = NoCache
    /\ keyListCache = NoCache
    /\ pc = "idle"
    /\ NoCall
    /\ fn = NoFn
    /\ NoTemplates
    /\ NoDirectives

(***************************************************************************)
(* repeat(items, keyFn, template, onRemove)(containerPart)                 *)
(***************************************************************************)

\* Line 182: the key of an item is its index when the call has no keyFn.
\* The key taken from the item although the call has no keyFn.
newKeyIgnoresKeyFn(items, index, hasKeyFn) == keyFn(items[index], index)

newKey(items, index, hasKeyFn) ==
    IF hasKeyFn THEN keyFn(items[index], index) ELSE index

\* Lines 166-198: read the caches, derive keys and values, set the pointers.
CallWith(items, hasKeyFn, handler) ==
    /\ pc = "idle"
    /\ pc' = "run"
    /\ onRemove' = handler
    /\ oldParts' = IF partListCache.defined THEN partListCache.list
                   ELSE EmptyArray
    /\ oldKeys' = IF keyListCache.defined THEN keyListCache.list
                  ELSE EmptyArray
    /\ newParts' = EmptyArray
    /\ newKeys' = [i \in DOMAIN items |-> newKey(items, i, hasKeyFn)]
    /\ newValues' = [i \in DOMAIN items |-> template(items[i], i)]
    /\ newKeyToIndexMap' = UndefinedMap
    /\ oldKeyToIndexMap' = UndefinedMap
    /\ oldHead' = 0
    /\ oldTail' = ArrLen(oldParts') - 1
    /\ newHead' = 0
    /\ newTail' = ArrLen(newValues') - 1
    /\ thrown' = "none"
    /\ oldParts0' = oldParts'
    /\ commits' = <<>>
    /\ created' = <<>>
    /\ removed' = <<>>
    /\ moved' = <<>>
    /\ rules' = <<>>
    /\ dom0' = dom
    /\ hooks' = <<>>
    /\ UNCHANGED <<dom, cacheVars>>
    /\ UNCHANGED otherVars

\* repeat(items, keyFn, template, onRemove) on a NodePart.
Call(items, handler) == CallWith(items, TRUE, handler)

InMainLoop == pc = "run" /\ oldHead <= oldTail /\ newHead <= newTail

\* The conditions of the if/else chain of the main loop, in order.
AtNullHead == oldParts[oldHead] = Null
AtNullTail == ~AtNullHead /\ oldParts[oldTail] = Null
\* The chain without its head/head test.
AtHeadHeadNever == FALSE

AtHeadHead == /\ ~AtNullHead /\ ~AtNullTail
              /\ oldKeys[oldHead] = newKeys[newHead]
\* The chain without its tail/tail test.
AtTailTailNever == FALSE

\* The tail/tail test comparing the old tail with the new head.
AtTailTailComparesHead == /\ ~AtNullHead /\ ~AtNullTail /\ ~AtHeadHead
                          /\ oldKeys[oldTail] = newKeys[newHead]

AtTailTail == /\ ~AtNullHead /\ ~AtNullTail /\ ~AtHeadHead
              /\ oldKeys[oldTail] = newKeys[newTail]
\* The chain without its head/tail test.
AtHeadTailNever == FALSE

AtHeadTail == /\ ~AtNullHead /\ ~AtNullTail /\ ~AtHeadHead /\ ~AtTailTail
              /\ oldKeys[oldHead] = newKeys[newTail]
AtTailHead == /\ ~AtNullHead /\ ~AtNullTail /\ ~AtHeadHead /\ ~AtTailTail
              /\ ~AtHeadTail
              /\ oldKeys[oldTail] = newKeys[newHead]
AtStuck == /\ ~AtNullHead /\ ~AtNullTail /\ ~AtHeadHead /\ ~AtTailTail
           /\ ~AtHeadTail /\ ~AtTailHead

\* Lines 387-389.
SkipOldHead ==
    /\ InMainLoop /\ AtNullHead
    /\ oldHead' = oldHead + 1
    /\ rules' = Append(rules, "skipHead")
    /\ UNCHANGED <<dom, cacheVars, pc, onRemove, oldParts, oldKeys, newParts,
                   newValues, newKeys, newKeyToIndexMap, oldKeyToIndexMap,
                   oldTail, newHead, newTail, thrown,
                   oldParts0, dom0, hooks, commits, created, removed, moved>>
    /\ UNCHANGED otherVars

\* SkipOldTail leaving oldTail where it is.
SkipOldTailStays ==
    /\ InMainLoop /\ AtNullTail
    /\ oldTail' = oldTail
    /\ rules' = Append(rules, "skipTail")
    /\ UNCHANGED <<dom, cacheVars, pc, onRemove, oldParts, oldKeys, newParts,
                   newValues, newKeys, newKeyToIndexMap, oldKeyToIndexMap,
                   oldHead, newHead, newTail, thrown,
                   oldParts0, dom0, hooks, commits, created, removed, moved>>
    /\ UNCHANGED otherVars

\* Lines 390-392.
SkipOldTail ==
    /\ InMainLoop /\ AtNullTail
    /\ oldTail' = oldTail - 1
    /\ rules' = Append(rules, "skipTail")
    /\ UNCHANGED <<dom, cacheVars, pc, onRemove, oldParts, oldKeys, newParts,
                   newValues, newKeys, newKeyToIndexMap, oldKeyToIndexMap,
                   oldHead, newHead, newTail, thrown,
                   oldParts0, dom0, hooks, commits, created, removed, moved>>
    /\ UNCHANGED otherVars

\* HeadHead updating and keeping the part at oldTail.
HeadHeadUsesTail ==
    /\ InMainLoop /\ AtHeadHead
    /\ dom' = updatePart(dom, oldParts[oldTail], newValues[newHead])
    /\ commits' = Append(commits, <<oldParts[oldTail], newValues[newHead]>>)
    /\ newParts' = Put(newParts, newHead, oldParts[oldTail])
    /\ oldHead' = oldHead + 1
    /\ newHead' = newHead + 1
    /\ rules' = Append(rules, "headHead")
    /\ UNCHANGED <<cacheVars, pc, onRemove, oldParts, oldKeys,
                   newValues, newKeys, newKeyToIndexMap, oldKeyToIndexMap,
                   oldTail, newTail, thrown,
                   oldParts0, dom0, hooks, created, removed, moved>>
    /\ UNCHANGED otherVars

\* Lines 393-398: old head matches new head; update in place.
HeadHead ==
    /\ InMainLoop /\ AtHeadHead
    /\ dom' = updatePart(dom, oldParts[oldHead], newValues[newHead])
    /\ commits' = Append(commits, <<oldParts[oldHead], newValues[newHead]>>)
    /\ newParts' = Put(newParts, newHead, oldParts[oldHead])
    /\ oldHead' = oldHead + 1
    /\ newHead' = newHead + 1
    /\ rules' = Append(rules, "headHead")
    /\ UNCHANGED <<cacheVars, pc, onRemove, oldParts, oldKeys,
                   newValues, newKeys, newKeyToIndexMap, oldKeyToIndexMap,
                   oldTail, newTail, thrown,
                   oldParts0, dom0, hooks, created, removed, moved>>
    /\ UNCHANGED otherVars

\* Lines 399-404: old tail matches new tail; update in place.
TailTail ==
    /\ InMainLoop /\ AtTailTail
    /\ dom' = updatePart(dom, oldParts[oldTail], newValues[newTail])
    /\ commits' = Append(commits, <<oldParts[oldTail], newValues[newTail]>>)
    /\ newParts' = Put(newParts, newTail, oldParts[oldTail])
    /\ oldTail' = oldTail - 1
    /\ newTail' = newTail - 1
    /\ rules' = Append(rules, "tailTail")
    /\ UNCHANGED <<cacheVars, pc, onRemove, oldParts, oldKeys,
                   newValues, newKeys, newKeyToIndexMap, oldKeyToIndexMap,
                   oldHead, newHead, thrown,
                   oldParts0, dom0, hooks, created, removed, moved>>
    /\ UNCHANGED otherVars

\* HeadTail without its call of insertPartBefore.
HeadTailNoMove ==
    /\ InMainLoop /\ AtHeadTail
    /\ LET part == oldParts[oldHead]
           d1 == updatePart(dom, part, newValues[newTail])
           ref == Get(newParts, newTail + 1)
           d2 == d1
       IN /\ dom' = d2
          /\ moved' = IF d2 # d1 THEN Append(moved, part) ELSE moved
          /\ commits' = Append(commits, <<part, newValues[newTail]>>)
          /\ newParts' = Put(newParts, newTail, part)
    /\ oldHead' = oldHead + 1
    /\ newTail' = newTail - 1
    /\ rules' = Append(rules, "headTail")
    /\ UNCHANGED <<cacheVars, pc, onRemove, oldParts, oldKeys,
                   newValues, newKeys, newKeyToIndexMap, oldKeyToIndexMap,
                   oldTail, newHead, thrown,
                   oldParts0, dom0, hooks, created, removed>>
    /\ UNCHANGED otherVars

\* Lines 405-412: old head matches new tail; update and move to new tail.
HeadTail ==
    /\ InMainLoop /\ AtHeadTail
    /\ LET part == oldParts[oldHead]
           d1 == updatePart(dom, part, newValues[newTail])
           ref == Get(newParts, newTail + 1)
           d2 == insertPartBefore(d1, part, ref)
       IN /\ dom' = d2
          /\ moved' = IF d2 # d1 THEN Append(moved, part) ELSE moved
          /\ commits' = Append(commits, <<part, newValues[newTail]>>)
          /\ newParts' = Put(newParts, newTail, part)
    /\ oldHead' = oldHead + 1
    /\ newTail' = newTail - 1
    /\ rules' = Append(rules, "headTail")
    /\ UNCHANGED <<cacheVars, pc, onRemove, oldParts, oldKeys,
                   newValues, newKeys, newKeyToIndexMap, oldKeyToIndexMap,
                   oldTail, newHead, thrown,
                   oldParts0, dom0, hooks, created, removed>>
    /\ UNCHANGED otherVars

\* TailHead committing the value at newTail.
TailHeadWrongValue ==
    /\ InMainLoop /\ AtTailHead
    /\ LET part == oldParts[oldTail]
           d1 == updatePart(dom, part, newValues[newTail])
           ref == oldParts[oldHead]
           d2 == insertPartBefore(d1, part, ref)
       IN /\ dom' = d2
          /\ moved' = IF d2 # d1 THEN Append(moved, part) ELSE moved
          /\ commits' = Append(commits, <<part, newValues[newTail]>>)
          /\ newParts' = Put(newParts, newHead, part)
    /\ oldTail' = oldTail - 1
    /\ newHead' = newHead + 1
    /\ rules' = Append(rules, "tailHead")
    /\ UNCHANGED <<cacheVars, pc, onRemove, oldParts, oldKeys,
                   newValues, newKeys, newKeyToIndexMap, oldKeyToIndexMap,
                   oldHead, newTail, thrown,
                   oldParts0, dom0, hooks, created, removed>>
    /\ UNCHANGED otherVars

\* Lines 413-420: old tail matches new head; update and move to new head.
TailHead ==
    /\ InMainLoop /\ AtTailHead
    /\ LET part == oldParts[oldTail]
           d1 == updatePart(dom, part, newValues[newHead])
           ref == oldParts[oldHead]
           d2 == insertPartBefore(d1, part, ref)
       IN /\ dom' = d2
          /\ moved' = IF d2 # d1 THEN Append(moved, part) ELSE moved
          /\ commits' = Append(commits, <<part, newValues[newHead]>>)
          /\ newParts' = Put(newParts, newHead, part)
    /\ oldTail' = oldTail - 1
    /\ newHead' = newHead + 1
    /\ rules' = Append(rules, "tailHead")
    /\ UNCHANGED <<cacheVars, pc, onRemove, oldParts, oldKeys,
                   newValues, newKeys, newKeyToIndexMap, oldKeyToIndexMap,
                   oldHead, newTail, thrown,
                   oldParts0, dom0, hooks, created, removed>>
    /\ UNCHANGED otherVars

\* The map of the new keys generated again by every stuck iteration.
StuckNewMapRebuilt == generateMap(newKeys, newHead, newTail)

\* Lines 422-427: the maps as the stuck branch sees them, generated if they
\* were not yet.
StuckNewMap == IF newKeyToIndexMap.defined THEN newKeyToIndexMap
               ELSE generateMap(newKeys, newHead, newTail)
StuckOldMap == IF newKeyToIndexMap.defined THEN oldKeyToIndexMap
               ELSE generateMap(oldKeys, oldHead, oldTail)

\* The old head taken to be gone whatever its key.
OldHeadGoneAlways == TRUE

OldHeadGone == ~MapHas(StuckNewMap, oldKeys[oldHead])
OldTailGone == ~OldHeadGone /\ ~MapHas(StuckNewMap, oldKeys[oldTail])

\* An exception leaves the call: nothing is persisted.
Throws(error) ==
    /\ pc' = "returned"
    /\ thrown' = error

\* Lines 428-431: old head is no longer in the new list; remove.
StuckRemoveHead ==
    /\ InMainLoop /\ AtStuck /\ OldHeadGone
    /\ newKeyToIndexMap' = StuckNewMap
    /\ oldKeyToIndexMap' = StuckOldMap
    /\ LET r == removePart(dom, oldParts[oldHead], onRemove)
       IN /\ dom' = r.dom
          /\ removed' = Append(removed, oldParts[oldHead])
          /\ hooks' = hooks \o r.hooks
          /\ IF r.error = "none"
             THEN /\ oldHead' = oldHead + 1
                  /\ UNCHANGED <<pc, thrown>>
             ELSE /\ Throws(r.error)
                  /\ UNCHANGED oldHead
    /\ rules' = Append(rules, "removeHead")
    /\ UNCHANGED <<cacheVars, onRemove, oldParts, oldKeys, newParts,
                   newValues, newKeys, oldTail, newHead, newTail,
                   oldParts0, dom0, commits, created, moved>>
    /\ UNCHANGED otherVars

\* Lines 432-435: old tail is no longer in the new list; remove.
StuckRemoveTail ==
    /\ InMainLoop /\ AtStuck /\ OldTailGone
    /\ newKeyToIndexMap' = StuckNewMap
    /\ oldKeyToIndexMap' = StuckOldMap
    /\ LET r == removePart(dom, oldParts[oldTail], onRemove)
       IN /\ dom' = r.dom
          /\ removed' = Append(removed, oldParts[oldTail])
          /\ hooks' = hooks \o r.hooks
          /\ IF r.error = "none"
             THEN /\ oldTail' = oldTail - 1
                  /\ UNCHANGED <<pc, thrown>>
             ELSE /\ Throws(r.error)
                  /\ UNCHANGED oldTail
    /\ rules' = Append(rules, "removeTail")
    /\ UNCHANGED <<cacheVars, onRemove, oldParts, oldKeys, newParts,
                   newValues, newKeys, oldHead, newHead, newTail,
                   oldParts0, dom0, commits, created, moved>>
    /\ UNCHANGED otherVars

\* Lines 439-441.
StuckOldIndex ==
    IF MapHas(StuckOldMap, newKeys[newHead])
    THEN StuckOldMap.map[newKeys[newHead]] ELSE -1
\* The lookup never finding an old part to reuse.
StuckOldPartNeverFound == Null

StuckOldPart == IF StuckOldIndex # -1 THEN oldParts[StuckOldIndex] ELSE Null

\* Lines 442-447, 456: no old part for this value; create one and insert it.
StuckCreate ==
    /\ InMainLoop /\ AtStuck /\ ~OldHeadGone /\ ~OldTailGone
    /\ StuckOldPart = Null
    /\ newKeyToIndexMap' = StuckNewMap
    /\ oldKeyToIndexMap' = StuckOldMap
    /\ LET newPart == NewPart(newKeys[newHead])
           d1 == createAndInsertPart(dom, oldParts[oldHead], newPart)
       IN /\ dom' = updatePart(d1, newPart, newValues[newHead])
          /\ created' = Append(created, newPart)
          /\ commits' = Append(commits, <<newPart, newValues[newHead]>>)
          /\ newParts' = Put(newParts, newHead, newPart)
    /\ newHead' = newHead + 1
    /\ rules' = Append(rules, "create")
    /\ UNCHANGED <<cacheVars, pc, onRemove, oldParts, oldKeys,
                   newValues, newKeys, oldHead, oldTail, newTail, thrown,
                   oldParts0, dom0, hooks, removed, moved>>
    /\ UNCHANGED otherVars

\* StuckReuse without line 454: the slot of the old part is not nulled.
StuckReuseNoTombstone ==
    /\ InMainLoop /\ AtStuck /\ ~OldHeadGone /\ ~OldTailGone
    /\ StuckOldPart # Null
    /\ newKeyToIndexMap' = StuckNewMap
    /\ oldKeyToIndexMap' = StuckOldMap
    /\ LET oldPart == StuckOldPart
           d1 == updatePart(dom, oldPart, newValues[newHead])
           ref == oldParts[oldHead]
           d2 == insertPartBefore(d1, oldPart, ref)
       IN /\ dom' = d2
          /\ moved' = IF d2 # d1 THEN Append(moved, oldPart) ELSE moved
          /\ commits' = Append(commits, <<oldPart, newValues[newHead]>>)
          /\ newParts' = Put(newParts, newHead, oldPart)
    /\ newHead' = newHead + 1
    /\ rules' = Append(rules, "reuse")
    /\ UNCHANGED <<cacheVars, pc, onRemove, oldParts, oldKeys,
                   newValues, newKeys, oldHead, oldTail, newTail, thrown,
                   oldParts0, dom0, hooks, created, removed>>
    /\ UNCHANGED otherVars

\* StuckReuse nulling the slot in a copy of the persisted part list.
StuckReuseCopiesOldParts ==
    /\ InMainLoop /\ AtStuck /\ ~OldHeadGone /\ ~OldTailGone
    /\ StuckOldPart # Null
    /\ newKeyToIndexMap' = StuckNewMap
    /\ oldKeyToIndexMap' = StuckOldMap
    /\ LET oldPart == StuckOldPart
           d1 == updatePart(dom, oldPart, newValues[newHead])
           ref == oldParts[oldHead]
           d2 == insertPartBefore(d1, oldPart, ref)
       IN /\ dom' = d2
          /\ moved' = IF d2 # d1 THEN Append(moved, oldPart) ELSE moved
          /\ commits' = Append(commits, <<oldPart, newValues[newHead]>>)
          /\ newParts' = Put(newParts, newHead, oldPart)
    /\ oldParts' = Put(oldParts, StuckOldIndex, Null)
    /\ newHead' = newHead + 1
    /\ rules' = Append(rules, "reuse")
    /\ UNCHANGED <<cacheVars, pc, onRemove, oldKeys,
                   newValues, newKeys, oldHead, oldTail, newTail, thrown,
                   oldParts0, dom0, hooks, created, removed>>
    /\ UNCHANGED otherVars

\* StuckReuse moving the old part before the part at oldTail.
StuckReuseBeforeTail ==
    /\ InMainLoop /\ AtStuck /\ ~OldHeadGone /\ ~OldTailGone
    /\ StuckOldPart # Null
    /\ newKeyToIndexMap' = StuckNewMap
    /\ oldKeyToIndexMap' = StuckOldMap
    /\ LET oldPart == StuckOldPart
           d1 == updatePart(dom, oldPart, newValues[newHead])
           ref == oldParts[oldTail]
           d2 == insertPartBefore(d1, oldPart, ref)
       IN /\ dom' = d2
          /\ moved' = IF d2 # d1 THEN Append(moved, oldPart) ELSE moved
          /\ commits' = Append(commits, <<oldPart, newValues[newHead]>>)
          /\ newParts' = Put(newParts, newHead, oldPart)
    /\ oldParts' = Put(oldParts, StuckOldIndex, Null)
    /\ partListCache' = IF partListCache.defined
                        THEN [partListCache EXCEPT !.list = oldParts']
                        ELSE partListCache
    /\ newHead' = newHead + 1
    /\ rules' = Append(rules, "reuse")
    /\ UNCHANGED <<keyListCache, pc, onRemove, oldKeys,
                   newValues, newKeys, oldHead, oldTail, newTail, thrown,
                   oldParts0, dom0, hooks, created, removed>>
    /\ UNCHANGED otherVars

\* Lines 448-456: reuse the old part, move it into place and null its slot.
\* oldParts is the array the cache holds, so the null is written there too.
StuckReuse ==
    /\ InMainLoop /\ AtStuck /\ ~OldHeadGone /\ ~OldTailGone
    /\ StuckOldPart # Null
    /\ newKeyToIndexMap' = StuckNewMap
    /\ oldKeyToIndexMap' = StuckOldMap
    /\ LET oldPart == StuckOldPart
           d1 == updatePart(dom, oldPart, newValues[newHead])
           ref == oldParts[oldHead]
           d2 == insertPartBefore(d1, oldPart, ref)
       IN /\ dom' = d2
          /\ moved' = IF d2 # d1 THEN Append(moved, oldPart) ELSE moved
          /\ commits' = Append(commits, <<oldPart, newValues[newHead]>>)
          /\ newParts' = Put(newParts, newHead, oldPart)
    /\ oldParts' = Put(oldParts, StuckOldIndex, Null)
    /\ partListCache' = IF partListCache.defined
                        THEN [partListCache EXCEPT !.list = oldParts']
                        ELSE partListCache
    /\ newHead' = newHead + 1
    /\ rules' = Append(rules, "reuse")
    /\ UNCHANGED <<keyListCache, pc, onRemove, oldKeys,
                   newValues, newKeys, oldHead, oldTail, newTail, thrown,
                   oldParts0, dom0, hooks, created, removed>>
    /\ UNCHANGED otherVars

\* Lines 460-468: add parts for any remaining new values.
InAddLoop == pc = "run" /\ ~InMainLoop /\ newHead <= newTail

AddRemaining ==
    /\ InAddLoop
    /\ LET newPart == NewPart(newKeys[newHead])
           d1 == createAndInsertPart(dom, Get(newParts, newTail + 1), newPart)
       IN /\ dom' = updatePart(d1, newPart, newValues[newHead])
          /\ created' = Append(created, newPart)
          /\ commits' = Append(commits, <<newPart, newValues[newHead]>>)
          /\ newParts' = Put(newParts, newHead, newPart)
    /\ newHead' = newHead + 1
    /\ rules' = Append(rules, "add")
    /\ UNCHANGED <<cacheVars, pc, onRemove, oldParts, oldKeys,
                   newValues, newKeys, newKeyToIndexMap, oldKeyToIndexMap,
                   oldHead, oldTail, newTail, thrown,
                   oldParts0, dom0, hooks, removed, moved>>
    /\ UNCHANGED otherVars

\* Lines 469-475: remove any remaining unused old parts.
InRemoveLoop == pc = "run" /\ ~InMainLoop /\ ~InAddLoop /\ oldHead <= oldTail

RemoveRemaining ==
    /\ InRemoveLoop
    /\ LET oldPart == oldParts[oldHead]
           r == IF oldPart # Null THEN removePart(dom, oldPart, onRemove)
                ELSE [dom |-> dom, error |-> "none", hooks |-> NoHooks]
       IN /\ dom' = r.dom
          /\ hooks' = hooks \o r.hooks
          /\ removed' = IF oldPart # Null THEN Append(removed, oldPart)
                        ELSE removed
          /\ IF r.error = "none" THEN UNCHANGED <<pc, thrown>>
             ELSE Throws(r.error)
    /\ oldHead' = oldHead + 1
    /\ rules' = Append(rules, "remove")
    /\ UNCHANGED <<cacheVars, onRemove, oldParts, oldKeys, newParts,
                   newValues, newKeys, newKeyToIndexMap, oldKeyToIndexMap,
                   oldTail, newHead, newTail,
                   oldParts0, dom0, commits, created, moved>>
    /\ UNCHANGED otherVars

\* Finish saving the old key list again.
FinishKeepsOldKeys ==
    /\ pc = "run" /\ ~InMainLoop /\ ~InAddLoop /\ ~InRemoveLoop
    /\ partListCache' = [defined |-> TRUE, list |-> newParts]
    /\ keyListCache' = [defined |-> TRUE, list |-> oldKeys]
    /\ pc' = "returned"
    /\ UNCHANGED <<dom, localVars, thrown, logVars>>
    /\ UNCHANGED otherVars

\* Lines 476-478: save the order of the new parts for the next round.
Finish ==
    /\ pc = "run" /\ ~InMainLoop /\ ~InAddLoop /\ ~InRemoveLoop
    /\ partListCache' = [defined |-> TRUE, list |-> newParts]
    /\ keyListCache' = [defined |-> TRUE, list |-> newKeys]
    /\ pc' = "returned"
    /\ UNCHANGED <<dom, localVars, thrown, logVars>>
    /\ UNCHANGED otherVars

\* Line 479: the call ends, normally or by an exception, and its locals
\* are gone.
Return ==
    /\ pc = "returned"
    /\ pc' = "idle"
    /\ onRemove' = "undefined"
    /\ oldParts' = EmptyArray
    /\ oldKeys' = EmptyArray
    /\ newParts' = EmptyArray
    /\ newValues' = EmptyArray
    /\ newKeys' = EmptyArray
    /\ newKeyToIndexMap' = UndefinedMap
    /\ oldKeyToIndexMap' = UndefinedMap
    /\ oldHead' = 0
    /\ oldTail' = -1
    /\ newHead' = 0
    /\ newTail' = -1
    /\ thrown' = "none"
    /\ oldParts0' = EmptyArray
    /\ commits' = <<>>
    /\ created' = <<>>
    /\ removed' = <<>>
    /\ moved' = <<>>
    /\ rules' = <<>>
    /\ dom0' = <<>>
    /\ hooks' = <<>>
    /\ UNCHANGED <<dom, cacheVars>>
    /\ UNCHANGED otherVars

Next ==
    \/ \E items \in ItemLists : Call(items, "undefined")
    \/ SkipOldHead
    \/ SkipOldTail
    \/ HeadHead
    \/ TailTail
    \/ HeadTail
    \/ TailHead
    \/ StuckRemoveHead
    \/ StuckRemoveTail
    \/ StuckCreate
    \/ StuckReuse
    \/ AddRemaining
    \/ RemoveRemaining
    \/ Finish
    \/ Return

Spec == Init /\ [][Next]_vars

(***************************************************************************)
(* repeat(items, template)(containerPart): no key function                 *)
(***************************************************************************)

\* The item lists of such calls: at most MaxLen items, repeats allowed.
NoKeyItemLists == UNION {[0..(n - 1) -> 1..NumItems] : n \in 0..MaxLen}

\* Lines 156-157: template === undefined, so the second argument is the
\* template and keyFn stays undefined.
CallNoKey(items, handler) == CallWith(items, FALSE, handler)

NextNoKey ==
    \/ \E items \in NoKeyItemLists : CallNoKey(items, "undefined")
    \/ HeadHead
    \/ AddRemaining
    \/ RemoveRemaining
    \/ Finish
    \/ Return

SpecNoKey == Init /\ [][NextNoKey]_vars

(***************************************************************************)
(* The directive on a part that is not a NodePart                          *)
(***************************************************************************)

\* Line 164.
UsageError == "repeat can only be used in text bindings"

\* The part tested after the items were read.
CallOnOtherPartLate(items, handler) ==
    /\ pc = "idle"
    /\ newKeys' = [i \in DOMAIN items |-> newKey(items, i, TRUE)]
    /\ newValues' = [i \in DOMAIN items |-> template(items[i], i)]
    /\ Throws(UsageError)
    /\ UNCHANGED <<dom, cacheVars, onRemove, oldParts, oldKeys, newParts,
                   newKeyToIndexMap, oldKeyToIndexMap,
                   oldHead, oldTail, newHead, newTail, logVars, otherVars>>

\* Lines 162-165: containerPart is, say, an AttributePart; the function
\* throws in its first statement.
CallOnOtherPart(items, handler) ==
    /\ pc = "idle"
    /\ Throws(UsageError)
    /\ UNCHANGED <<dom, cacheVars, localVars, logVars, otherVars>>

NextUsage ==
    \/ Next
    \/ \E items \in ItemLists : CallOnOtherPart(items, "undefined")

SpecUsage == Init /\ [][NextUsage]_vars

(***************************************************************************)
(* repeat(items, keyFn, template, onRemove)(containerPart)                 *)
(***************************************************************************)

\* The child list made of the ranges of parts[from..], part i rendering
\* the item keys[i].
RECURSIVE RangesFrom(_, _, _)
RangesFrom(parts, keys, from) ==
    IF from \notin DOMAIN keys THEN <<>>
    ELSE <<startNode(parts[from]),
           contentNode(parts[from], template(keys[from], from)),
           endNode(parts[from])>> \o RangesFrom(parts, keys, from + 1)

\* The children of the container are the ranges of the persisted parts.  A
\* call that threw, or whose handler kept or detached nodes, leaves the
\* container otherwise; it is not rendered into again.
ContainerIntact ==
    dom = <<ContainerStart>>
            \o RangesFrom(partListCache.list, keyListCache.list, 0)
            \o <<ContainerEnd>>

CallHooked(items, handler) ==
    /\ pc = "idle"
    /\ ContainerIntact
    /\ Call(items, handler)

\* A list longer than those of ItemLists, with one more key at its second
\* place: its part can be removed after parts behind it were reused.
LongList ==
    [i \in 0..MaxLen |-> IF i = 0 THEN 1 ELSE IF i = 1 THEN NumKeys + 1 ELSE i]

NextHook ==
    \/ \E items \in ItemLists, handler \in Handlers :
          CallHooked(items, handler)
    \/ \E handler \in Handlers : CallHooked(LongList, handler)
    \/ SkipOldHead
    \/ SkipOldTail
    \/ HeadHead
    \/ TailTail
    \/ HeadTail
    \/ TailHead
    \/ StuckRemoveHead
    \/ StuckRemoveTail
    \/ StuckCreate
    \/ StuckReuse
    \/ AddRemaining
    \/ RemoveRemaining
    \/ Finish
    \/ Return

SpecHook == Init /\ [][NextHook]_vars

(***************************************************************************)
(* removePart(part, nodeRemovalHandler) on its own                         *)
(***************************************************************************)

\* The children of a container that holds the parts of the keys 1..n, each
\* rendered once.
FirstKeys(n) == [i \in 0..(n - 1) |-> i + 1]
FirstParts(n) == [i \in 0..(n - 1) |-> [key |-> i + 1, gen |-> 0]]
Rendered(n) ==
    <<ContainerStart>> \o RangesFrom(FirstParts(n), FirstKeys(n), 0)
        \o <<ContainerEnd>>

\* The same children after none (x = 0) or one of the nodes of the parts
\* was detached from the container out of band.
DetachedAt(d, x) == IF x = 0 THEN d ELSE removeChild(d, d[x + 1])
RenderedLists ==
    UNION {{DetachedAt(Rendered(n), x) : x \in 0..(3 * n)} : n \in 1..MaxLen}

\* Lines 109-113: the arguments removePart passes on.
RemovePartCalls(d) ==
    {[name |-> "removePart", part |-> part, handler |-> handler,
      container |-> parentNode(d, startNode(part)),
      end |-> nextSibling(d, endNode(part)),
      visited |-> <<>>, done |-> FALSE] :
        part \in {d[i].part : i \in 2..(Len(d) - 1)}, handler \in Handlers}

InitRemoval ==
    /\ dom \in RenderedLists
    /\ fn \in RemovePartCalls(dom)
    /\ partListCache = NoCache
    /\ keyListCache = NoCache
    /\ pc = "idle"
    /\ NoCall
    /\ NoTemplates
    /\ NoDirectives

RemovePartCall ==
    /\ fn.name = "removePart" /\ ~fn.done
    /\ LET r == removePart(dom, fn.part, fn.handler)
       IN /\ dom' = r.dom
          /\ thrown' = r.error
          /\ hooks' = r.hooks
          /\ fn' = [fn EXCEPT !.visited = r.visited, !.done = TRUE]
    /\ dom0' = dom
    /\ UNCHANGED <<cacheVars, pc, localVars, oldParts0, commits, created,
                   removed, moved, rules, templateVars, directiveVars>>

NextRemoval == RemovePartCall

SpecRemoval == InitRemoval /\ [][NextRemoval]_vars

(***************************************************************************)
(* reparentNodes(container, start, end, before) on its own, the nodes      *)
(* being children of container                                             *)
(***************************************************************************)

\* The children of d from start up to end (exclusive), or up to the last
\* child when end is null.
RunOf(d, start, end) ==
    IF start = end \/ start = NullNode THEN <<>>
    ELSE SubSeq(d, IndexOf(d, start),
                IF end = NullNode THEN Len(d) ELSE IndexOf(d, end) - 1)

\* The calls on the children d: start is a child or null, end is start, a
\* later sibling of start or null, and before is null or a child that is
\* not in the run.
ReparentCall(d, start, end, before) ==
    [name |-> "reparentNodes", start |-> start, end |-> end,
     before |-> before, run |-> RunOf(d, start, end),
     iterations |-> 0, done |-> FALSE]
ReparentCalls(d) ==
    LET nodes == SeqRange(d) \cup {NullNode}
    IN {ReparentCall(d, a[1], a[2], a[3]) :
          a \in {t \in nodes \X nodes \X nodes :
                    /\ Reaches(d, t[1], t[2])
                    /\ t[3] \notin SeqRange(RunOf(d, t[1], t[2]))}}

InitReparent ==
    /\ dom \in {Rendered(n) : n \in 1..MaxLen}
    /\ fn \in ReparentCalls(dom)
    /\ partListCache = NoCache
    /\ keyListCache = NoCache
    /\ pc = "idle"
    /\ onRemove = "undefined"
    /\ oldParts = EmptyArray
    /\ oldKeys = EmptyArray
    /\ newParts = EmptyArray
    /\ newValues = EmptyArray
    /\ newKeys = EmptyArray
    /\ newKeyToIndexMap = UndefinedMap
    /\ oldKeyToIndexMap = UndefinedMap
    /\ oldHead = 0
    /\ oldTail = -1
    /\ newHead = 0
    /\ newTail = -1
    /\ thrown = "none"
    /\ oldParts0 = EmptyArray
    /\ commits = <<>>
    /\ created = <<>>
    /\ removed = <<>>
    /\ moved = <<>>
    /\ rules = <<>>
    /\ dom0 = dom
    /\ hooks = <<>>
    /\ NoTemplates
    /\ NoDirectives

\* ReparentStep taking the next sibling after the node was moved.
ReparentStepNextAfterMove ==
    /\ fn.name = "reparentNodes" /\ ~fn.done
    /\ fn.start # fn.end
    /\ fn.iterations <= Len(dom)
    /\ IF fn.start = NullNode
       THEN /\ thrown' = "TypeError"
            /\ fn' = [fn EXCEPT !.done = TRUE]
            /\ UNCHANGED dom
       ELSE /\ dom' = insertBefore(dom, fn.start, fn.before)
            /\ fn' = [fn EXCEPT !.start = nextSibling(dom', fn.start),
                                !.iterations = @ + 1]
            /\ UNCHANGED thrown
    /\ UNCHANGED <<cacheVars, pc, localVars, logVars, templateVars,
                   directiveVars>>

\* Lines 45-49: one iteration of the loop.  A loop that ends makes one
\* iteration per node of the run, so none is followed past Len(dom) + 1.
ReparentStep ==
    /\ fn.name = "reparentNodes" /\ ~fn.done
    /\ fn.start # fn.end
    /\ fn.iterations <= Len(dom)
    /\ IF fn.start = NullNode
       THEN /\ thrown' = "TypeError"
            /\ fn' = [fn EXCEPT !.done = TRUE]
            /\ UNCHANGED dom
       ELSE /\ dom' = insertBefore(dom, fn.start, fn.before)
            /\ fn' = [fn EXCEPT !.start = nextSibling(dom, fn.start),
                                !.iterations = @ + 1]
            /\ UNCHANGED thrown
    /\ UNCHANGED <<cacheVars, pc, localVars, logVars, templateVars,
                   directiveVars>>

\* Line 45: start === end, the loop is left.
ReparentReturn ==
    /\ fn.name = "reparentNodes" /\ ~fn.done
    /\ fn.start = fn.end
    /\ fn' = [fn EXCEPT !.done = TRUE]
    /\ UNCHANGED <<dom, cacheVars, pc, localVars, thrown, logVars,
                   templateVars, directiveVars>>

NextReparent == ReparentStep \/ ReparentReturn

SpecReparent == InitReparent /\ [][NextReparent]_vars

(***************************************************************************)
(* src/unnamed/part_000: templateFactory                                   *)
(***************************************************************************)

\* Text is a sequence of characters, the marker being one of them.
marker == "{{lit-7}}"

\* The strings arrays are objects 1..NumStrings.  Two of every four hold
\* the same two strings, a third holds one string that reads as those two
\* joined, and the fourth holds another string.
StringsArrays == 1..NumStrings
StringsOf(strings) ==
    IF strings % 4 \in {1, 2} THEN << <<"a">>, <<"b">> >>
    ELSE IF strings % 4 = 3 THEN << <<"a", marker, "b">> >>
    ELSE << <<"c">> >>

\* Array.prototype.join
RECURSIVE join(_, _)
join(texts, separator) ==
    IF texts = <<>> THEN <<>>
    ELSE IF Len(texts) = 1 THEN texts[1]
    ELSE texts[1] \o <<separator>> \o join(Tail(texts), separator)

TemplateResults == [type : {"html", "svg"}, strings : StringsArrays]

\* The lookup finding no Template for any strings array.
CachedTemplateNeverFound(type, strings) == 0

\* templateCaches.get(type).get(strings), 0 standing for undefined.
CachedTemplate(type, strings) ==
    IF type \in DOMAIN templateCaches
       /\ strings \in DOMAIN templateCaches[type]
    THEN templateCaches[type][strings] ELSE 0

\* The lookup finding no Template for any key.
KeyedTemplateNeverFound(key) == 0

\* keyedTemplates.get(key), 0 standing for undefined.
KeyedTemplate(key) ==
    IF key \in DOMAIN keyedTemplates THEN keyedTemplates[key] ELSE 0

\* Lines 44-72.  A Template is named by its place among the Templates
\* constructed.  fn records the call: what it returned, whether it came to
\* line 59 (keyedTemplates.get) and whether it came to line 62 (new
\* Template).
TemplateFactory(result) ==
    LET templateCache == IF result.type \in DOMAIN templateCaches
                         THEN templateCaches[result.type]
                         ELSE [strings \in {} |-> 0]
        cached == CachedTemplate(result.type, result.strings)
        key == join(StringsOf(result.strings), marker)
        found == KeyedTemplate(key)
        made == IF cached # 0 THEN cached
                ELSE IF found # 0 THEN found
                ELSE Len(templates) + 1
    IN /\ IF cached # 0
          THEN /\ templateCaches' =
                     Put(templateCaches, result.type, templateCache)
               /\ UNCHANGED <<keyedTemplates, templates>>
          ELSE /\ templates' = IF found # 0 THEN templates
                               ELSE Append(templates, result)
               /\ keyedTemplates' = IF found # 0 THEN keyedTemplates
                                    ELSE Put(keyedTemplates, key, made)
               /\ templateCaches' =
                     Put(templateCaches, result.type,
                         Put(templateCache, result.strings, made))
       /\ handedOut' = handedOut \cup
                          {[type |-> result.type, strings |-> result.strings,
                            template |-> made]}
       /\ fn' = [name |-> "templateFactory", result |-> result,
                 returned |-> made,
                 keyed |-> cached = 0,
                 constructed |-> cached = 0 /\ found = 0]
       /\ UNCHANGED <<dom, cacheVars, pc, localVars, thrown, logVars,
                      directiveVars>>

NextTemplates == \E result \in TemplateResults : TemplateFactory(result)

SpecTemplates == Init /\ [][NextTemplates]_vars

(***************************************************************************)
(* src/src/directives/unsafe-html.ts: unsafeHTML(value) on one part        *)
(***************************************************************************)

\* A JavaScript value: its type, what tells it from the other values of
\* the type and, for a template result, its strings array (h for a
\* compiled one).
Value(type, id) == [type |-> type, id |-> id, strings |-> 0, h |-> 0]

\* The values given to unsafeHTML: two strings, NaN, undefined and two
\* objects.
HtmlValues ==
    {Value("string", "aaa"), Value("string", "bbb"), Value("number", "NaN"),
     Undefined, Value("object", "o1"), Value("object", "o2")}

\* a === b
StrictEquals(a, b) == a = b /\ a.id # "NaN"

\* isPrimitive of lit-html.js: neither an object nor a function.
isPrimitive(value) == value.type \in {"string", "number", "undefined"}

\* tmp.innerHTML = value: the value is converted to a string.
String(value) ==
    IF value.type = "string" THEN value.id
    ELSE IF value.type = "object" THEN "[object Object]"
    ELSE IF value.type = "number" THEN "NaN"
    ELSE "undefined"

\* Lines 36-38: the text is parsed in a template element and its content
\* imported, which makes nodes that did not exist before; they are named
\* by the call that made them.
importNode(text, call) == <<[node |-> call, text |-> text]>>

\* The calls of unsafeHTML made so far.
CallsMade == IF fn.name = "unsafeHTML" THEN fn.calls ELSE 0

\* unsafeHTML comparing the value with the text of the part's node.
UnsafeHTMLChecksNodes(value) ==
    /\ CallsMade < MaxCalls
    /\ IF partNodes # <<>> /\ partNodes[1].text = String(value)
          /\ isPrimitive(value) /\ init
       THEN /\ UNCHANGED unsafeVars
            /\ fn' = [name |-> "unsafeHTML", value |-> value,
                      calls |-> CallsMade + 1, committed |-> FALSE]
       ELSE /\ partNodes' = importNode(String(value), CallsMade + 1)
            /\ previousValue' = value
            /\ init' = TRUE
            /\ fn' = [name |-> "unsafeHTML", value |-> value,
                      calls |-> CallsMade + 1, committed |-> TRUE]
    /\ UNCHANGED <<dom, cacheVars, pc, localVars, thrown, logVars,
                   templateVars, cacheDirectiveVars>>

\* Lines 29-41.  fn records the call and whether it came to line 38
\* (part.commitValue).
UnsafeHTML(value) ==
    /\ CallsMade < MaxCalls
    /\ IF StrictEquals(previousValue, value) /\ isPrimitive(value) /\ init
       THEN /\ UNCHANGED unsafeVars
            /\ fn' = [name |-> "unsafeHTML", value |-> value,
                      calls |-> CallsMade + 1, committed |-> FALSE]
       ELSE /\ partNodes' = importNode(String(value), CallsMade + 1)
            /\ previousValue' = value
            /\ init' = TRUE
            /\ fn' = [name |-> "unsafeHTML", value |-> value,
                      calls |-> CallsMade + 1, committed |-> TRUE]
    /\ UNCHANGED <<dom, cacheVars, pc, localVars, thrown, logVars,
                   templateVars, cacheDirectiveVars>>

\* The text of the part's node is changed out of band (test 'dirty checks
\* primitive values': text.textContent = 'bbb').
EditNode ==
    /\ partNodes # <<>>
    /\ \E text \in {"aaa", "bbb"} :
          /\ partNodes[1].text # text
          /\ partNodes' = [partNodes EXCEPT ![1].text = text]
    /\ UNCHANGED <<init, previousValue>>
    /\ UNCHANGED <<dom, cacheVars, pc, localVars, thrown, logVars,
                   fn, templateVars, cacheDirectiveVars>>

NextUnsafe ==
    \/ \E value \in HtmlValues : UnsafeHTML(value)
    \/ EditNode

SpecUnsafe == Init /\ [][NextUnsafe]_vars

(***************************************************************************)
(* src/packages/lit-html/src/directives/cache.ts: cache(v) on one          *)
(* container part                                                          *)
(***************************************************************************)

\* Template results: html`...` with the strings array strings, or a
\* compiled template result whose strings array is h.  id stands for the
\* values of the expressions.
Result(strings, id) ==
    [type |-> "result", id |-> id, strings |-> strings, h |-> 0]
Compiled(h, id) ==
    [type |-> "compiled", id |-> id, strings |-> 0, h |-> h]

\* The values given to cache: for each of NumCached strings arrays a
\* template result with either of two sets of expression values (every
\* third array being that of a compiled result), and two strings.
CacheValues ==
    {IF strings % 3 = 0 THEN Compiled(strings, id) ELSE Result(strings, id) :
        strings \in 1..NumCached, id \in {"v1", "v2"}}
        \cup {Value("string", "aaa"), Value("string", "bbb")}

\* directive-helpers.js
isTemplateResult(value) == value.type \in {"result", "compiled"}
isCompiledTemplateResult(value) == value.type = "compiled"

\* Lines 36-39.
getStringsFromTemplateResult(result) ==
    IF isCompiledTemplateResult(result) THEN result.h ELSE result.strings

\* Lines 59-64: the previous value is a template result and the new value
\* is none, or one of other strings.
MovesToCache(value, v) ==
    /\ isTemplateResult(value)
    /\ \/ ~isTemplateResult(v)
       \/ getStringsFromTemplateResult(value) #
             getStringsFromTemplateResult(v)

\* The directive never taking a part back from its cache.
RestoresNever(value, v, templateCache) == FALSE

\* Lines 87-96: the new value is a template result, the previous value is
\* none or one of other strings, and there is a cached container part for
\* the new strings.
RestoresFromCache(value, v, templateCache) ==
    /\ isTemplateResult(v)
    /\ \/ ~isTemplateResult(value)
       \/ getStringsFromTemplateResult(value) #
             getStringsFromTemplateResult(v)
    /\ getStringsFromTemplateResult(v) \in DOMAIN templateCache

\* Array.prototype.pop: the last element, and the array without it.
Last(array) == array[Len(array)]
Front(array) == SubSeq(array, 1, Len(array) - 1)

\* The places of a child part's nodes: the container part, or the detached
\* container part cached for a strings array; a part that clearPart has
\* removed is in neither.
InContainer == 0
Cleared == -1

\* A ChildPart as lit-html creates it for an item of a committed array.
NewChildPart == [value |-> Undefined, nodes |-> 0, place |-> InContainer]
NewChildPartId == CHOOSE n \in 1..(Cardinality(DOMAIN childParts) + 1) :
                     n \notin DOMAIN childParts

\* ChildPart._$setValue: a template result of the strings the part renders
\* already, or a text after a text, is updated in place; any other value
\* replaces the part's nodes.
UpdatesInPlace(old, v) ==
    \/ /\ isTemplateResult(old) /\ isTemplateResult(v)
       /\ getStringsFromTemplateResult(old) = getStringsFromTemplateResult(v)
    \/ old.type = "string" /\ v.type = "string"
SetValue(part, v) ==
    [value |-> v,
     nodes |-> IF UpdatesInPlace(part.value, v) THEN part.nodes
               ELSE part.nodes + 1,
     place |-> part.place]

\* clearPart(containerPart): the nodes of the container part are removed.
clearPart(parts) ==
    [p \in DOMAIN parts |->
        IF parts[p].place = InContainer
        THEN [parts[p] EXCEPT !.place = Cleared] ELSE parts[p]]

\* insertPart(containerPart, undefined, part): the nodes of part are moved
\* to the end of the container part place.
insertPart(parts, place, part) ==
    [parts EXCEPT ![part].place = place]

\* Lines 55-113, and the commit of the array [v] that render returns:
\* lit-html sets v on the first part of the committed array, creating the
\* part when the array is empty.  A part that nothing references any more
\* is forgotten.  fn records the call: the part it moved into the cache,
\* the part it took back, and whether pop() found an array empty.
CacheUpdate(v) ==
    LET away == MovesToCache(_value, v)
        childPart == Last(committedValue)
        key1 == getStringsFromTemplateResult(_value)
        committed1 == IF away THEN Front(committedValue) ELSE committedValue
        cache1 == IF away THEN Put(_templateCache, key1, <<childPart>>)
                  ELSE _templateCache
        parts1 == IF away THEN insertPart(childParts, key1, childPart)
                  ELSE childParts
        back == RestoresFromCache(_value, v, cache1)
        key2 == getStringsFromTemplateResult(v)
        cachedPart == Last(cache1[key2])
        cache2 == IF back THEN [cache1 EXCEPT ![key2] = Front(@)]
                  ELSE cache1
        parts2 == IF back
                  THEN insertPart(clearPart(parts1), InContainer, cachedPart)
                  ELSE parts1
        committed2 == IF back THEN <<cachedPart>> ELSE committed1
        itemPart == IF committed2 = <<>> THEN NewChildPartId
                    ELSE committed2[1]
        parts3 == IF committed2 = <<>>
                  THEN (itemPart :> NewChildPart) @@ parts2 ELSE parts2
        parts4 == [parts3 EXCEPT ![itemPart] = SetValue(@, v)]
        referenced == {itemPart} \cup
                         UNION {SeqRange(cache2[k]) : k \in DOMAIN cache2}
    IN IF away /\ committedValue = <<>>
       THEN /\ fn' = [name |-> "cache", v |-> v, cached |-> 0,
                      restored |-> 0, poppedEmpty |-> TRUE]
            /\ UNCHANGED cacheDirectiveVars
       ELSE IF back /\ cache1[key2] = <<>>
       THEN /\ fn' = [name |-> "cache", v |-> v, cached |-> 0,
                      restored |-> 0, poppedEmpty |-> TRUE]
            /\ UNCHANGED cacheDirectiveVars
       ELSE /\ _value' = IF isTemplateResult(v) THEN v ELSE Undefined
            /\ _templateCache' = cache2
            /\ committedValue' = <<itemPart>>
            /\ childParts' = [p \in referenced |-> parts4[p]]
            /\ fn' = [name |-> "cache", v |-> v,
                      cached |-> IF away THEN childPart ELSE 0,
                      restored |-> IF back THEN cachedPart ELSE 0,
                      poppedEmpty |-> FALSE]

CacheCall(v) ==
    /\ CacheUpdate(v)
    /\ UNCHANGED <<dom, cacheVars, pc, localVars, thrown, logVars,
                   templateVars, unsafeVars>>

NextCache == \E v \in CacheValues : CacheCall(v)

SpecCache == Init /\ [][NextCache]_vars

(***************************************************************************)
(* Properties                                                              *)
(***************************************************************************)

\* The last call on the container returned normally.
Returned == pc = "returned" /\ thrown = "none"

OldLen == ArrLen(oldKeys)
NewLen == ArrLen(newKeys)
OldKeySet == Range(oldKeys)
NewKeySet == Range(newKeys)
OldIndexOfKey(k) == CHOOSE j \in DOMAIN oldKeys : oldKeys[j] = k
RetainedIdx == {i \in DOMAIN newKeys : newKeys[i] \in OldKeySet}

\* C1: when a call returns, the nodes between the container's markers are
\* exactly the ranges of newParts[0..n-1] in index order, each range
\* contiguous, and part i renders the item with key newKeys[i].
C1_DomIsNewPartsInOrder ==
    Returned =>
        /\ DOMAIN newParts = DOMAIN newKeys
        /\ dom = <<ContainerStart>> \o RangesFrom(newParts, newKeys, 0)
                   \o <<ContainerEnd>>

C1_Witness ==
    /\ Returned
    /\ Len(moved) > 0 /\ Len(removed) > 0 /\ Len(created) > 0
    /\ NewLen >= 3

\* C2: when a call returns, every new key that was an old key has the very
\* part of that old key, every other new key has a part created in this
\* call, and as many parts were created as there are new keys absent from
\* the old keys.
C2_StrictKeyToPart ==
    Returned =>
        /\ \A i \in DOMAIN newKeys :
              IF newKeys[i] \in OldKeySet
              THEN Get(newParts, i) = oldParts0[OldIndexOfKey(newKeys[i])]
              ELSE /\ Get(newParts, i) \in SeqRange(created)
                   /\ Get(newParts, i) \notin Range(oldParts0)
        /\ Len(created) = Cardinality(NewKeySet \ OldKeySet)

C2_Witness ==
    /\ Returned
    /\ \E i \in DOMAIN newKeys : \E j \in DOMAIN oldKeys :
          i # j /\ newKeys[i] = oldKeys[j] /\ newParts[i] = oldParts0[j]
    /\ \E i \in DOMAIN newKeys :
          newKeys[i] \notin OldKeySet /\ newParts[i] \in SeqRange(created)
    /\ OldLen >= 2

\* C3: in every call each commit is made on the part stored at the index
\* its value belongs to, and when the call returns every index 0..n-1 has
\* had exactly one commit, of newValues[i] on newParts[i].
C3_OneCommitPerIndex ==
    /\ \A k \in 1..Len(commits) :
          /\ commits[k][2] = Get(newValues, commits[k][2].index)
          /\ commits[k][1] = Get(newParts, commits[k][2].index)
    /\ \A k, l \in 1..Len(commits) : commits[k][2] = commits[l][2] => k = l
    /\ Returned =>
          /\ Len(commits) = NewLen
          /\ \A i \in DOMAIN newValues :
                \E k \in 1..Len(commits) :
                    commits[k] = <<newParts[i], newValues[i]>>

C3_Witness ==
    /\ Returned
    /\ Len(commits) >= 3
    /\ \E k \in 1..Len(rules) : rules[k] \in {"headTail", "tailHead"}
    /\ \E k \in 1..Len(rules) : rules[k] \in {"create", "add"}

\* C4: a call that completes persists exactly its (newParts, newKeys), both
\* of length n, newParts without hole or null and newParts[i] rendering the
\* item of newKeys[i]; nothing changes them before the next call, which
\* reads these lists as oldParts/oldKeys.
C4_PersistedState ==
    [][/\ (pc = "run" /\ pc' = "returned" /\ thrown' = "none") =>
            /\ partListCache' = [defined |-> TRUE, list |-> newParts]
            /\ keyListCache' = [defined |-> TRUE, list |-> newKeys]
            /\ DOMAIN partListCache'.list = 0..(ArrLen(newValues) - 1)
            /\ DOMAIN keyListCache'.list = 0..(ArrLen(newValues) - 1)
            /\ \A i \in DOMAIN partListCache'.list :
                  /\ IsPart(partListCache'.list[i])
                  /\ InDom(dom', contentNode(partListCache'.list[i],
                                 template(keyListCache'.list[i], i)))
       /\ (pc = "returned") => UNCHANGED <<partListCache, keyListCache>>
       /\ (pc = "idle" /\ pc' = "run" /\ partListCache.defined) =>
            /\ oldParts' = partListCache.list
            /\ oldKeys' = keyListCache.list]_vars

C4_Witness ==
    /\ pc = "run"
    /\ rules = <<>>
    /\ OldLen >= 2
    /\ oldParts = partListCache.list
    /\ oldKeys = keyListCache.list

\* The least number of part moves that turns the old order into the new
\* one: the retained parts outside a longest subsequence of retained parts
\* that are already in the right relative order.
InOrder(S) ==
    \A i, j \in S :
        i < j => OldIndexOfKey(newKeys[i]) < OldIndexOfKey(newKeys[j])
LongestInOrder == Max({Cardinality(S) : S \in {T \in SUBSET RetainedIdx : InOrder(T)}})
MinMoves == Cardinality(RetainedIdx) - LongestInOrder

\* The new keys are the old keys with the one at index i taken out and
\* put back at index j.
MoveItem(a, i, j) ==
    [x \in DOMAIN a |->
        IF i < j THEN (IF x < i \/ x > j THEN a[x]
                       ELSE IF x = j THEN a[i] ELSE a[x + 1])
        ELSE (IF x < j \/ x > i THEN a[x]
              ELSE IF x = j THEN a[i] ELSE a[x - 1])]
SingleItemMoved ==
    \E i, j \in DOMAIN oldKeys : i # j /\ newKeys = MoveItem(oldKeys, i, j)

IsPrefix(a, b) ==
    ArrLen(a) <= ArrLen(b) /\ \A i \in DOMAIN a : a[i] = b[i]
IsSuffix(a, b) ==
    /\ ArrLen(a) <= ArrLen(b)
    /\ \A i \in DOMAIN a : a[i] = b[i + ArrLen(b) - ArrLen(a)]

MapsBuilt == newKeyToIndexMap.defined \/ oldKeyToIndexMap.defined

\* C6: when the old keys are a prefix of the new keys, the call creates one
\* part per appended key, moves and removes nothing and never builds the
\* key-to-index maps.
C6_Append ==
    (Returned /\ IsPrefix(oldKeys, newKeys)) =>
        /\ Len(created) = NewLen - OldLen
        /\ \A k \in 1..Len(created) : created[k] = newParts[OldLen + k - 1]
        /\ \A i \in DOMAIN oldKeys : newParts[i] = oldParts0[i]
        /\ moved = <<>>
        /\ removed = <<>>
        /\ ~MapsBuilt

C6_Witness ==
    /\ Returned /\ IsPrefix(oldKeys, newKeys)
    /\ OldLen >= 2 /\ NewLen >= OldLen + 2
    /\ Len(created) = 2

PositionOf(n) == IndexOf(dom, n)

\* C7: when the old keys are a suffix of the new keys, the call creates one
\* part per prepended key, their ranges stand in order before the first
\* retained part, and no existing part is moved or removed.
C7_Prepend ==
    (Returned /\ IsSuffix(oldKeys, newKeys)) =>
        /\ Len(created) = NewLen - OldLen
        /\ \A k \in 1..Len(created) :
              /\ created[k] = newParts[k - 1]
              /\ InDom(dom, startNode(created[k]))
              /\ PositionOf(startNode(created[k])) = 3 * (k - 1) + 2
        /\ \A i \in DOMAIN oldKeys :
              /\ newParts[i + NewLen - OldLen] = oldParts0[i]
              /\ InDom(dom, startNode(oldParts0[i]))
              /\ PositionOf(startNode(oldParts0[i])) >
                    3 * (NewLen - OldLen)
        /\ moved = <<>>
        /\ removed = <<>>

C7_Witness ==
    /\ Returned /\ IsSuffix(oldKeys, newKeys)
    /\ OldLen >= 2 /\ NewLen >= OldLen + 2
    /\ Len(created) = 2
    /\ dom[2] = startNode(created[1])

Reverse(a) == [i \in DOMAIN a |-> a[ArrLen(a) - 1 - i]]
HeadTailRules == {"headHead", "tailTail", "headTail", "tailHead"}

\* C8: when the new keys are the old keys reversed, every old part is
\* reused by the head/tail rules alone, the maps are never built, nothing
\* is created or removed, and the ranges end up in reversed order.
C8_Reversal ==
    (Returned /\ newKeys = Reverse(oldKeys)) =>
        /\ \A k \in 1..Len(rules) : rules[k] \in HeadTailRules
        /\ ~MapsBuilt
        /\ created = <<>>
        /\ removed = <<>>
        /\ newParts = Reverse(oldParts0)
        /\ dom = <<ContainerStart>>
                   \o RangesFrom(Reverse(oldParts0), Reverse(oldKeys), 0)
                   \o <<ContainerEnd>>

C8_Witness ==
    /\ Returned /\ newKeys = Reverse(oldKeys)
    /\ OldLen = 4
    /\ Len(moved) = 3

\* The array a without its k entries from index i on.
DeleteRun(a, i, k) ==
    [x \in 0..(ArrLen(a) - k - 1) |-> IF x < i THEN a[x] ELSE a[x + k]]
RunsDeleted ==
    {ik \in (DOMAIN oldKeys) \X (1..OldLen) :
        /\ ik[1] + ik[2] <= OldLen
        /\ newKeys = DeleteRun(oldKeys, ik[1], ik[2])}

\* C9: when the new keys are the old keys with one contiguous run of k keys
\* deleted, the call removes exactly the k parts of the run, in the final
\* loop and without building the maps, creates and moves nothing, and the
\* retained parts keep their order.
C9_ContiguousRemoval ==
    Returned =>
        \A ik \in RunsDeleted :
            /\ Len(removed) = ik[2]
            /\ \A x \in 1..Len(removed) : removed[x] = oldParts0[ik[1] + x - 1]
            /\ Cardinality({x \in 1..Len(rules) : rules[x] = "remove"}) = ik[2]
            /\ ~MapsBuilt
            /\ created = <<>>
            /\ moved = <<>>
            /\ newParts = DeleteRun(oldParts0, ik[1], ik[2])

C9_Witness ==
    /\ Returned
    /\ \E ik \in RunsDeleted : ik[1] = 1 /\ ik[2] = 2
    /\ OldLen = 4
    /\ Len(removed) = 2

SwapAt(a, i) ==
    [x \in DOMAIN a |-> IF x = i THEN a[i + 1]
                        ELSE IF x = i + 1 THEN a[i] ELSE a[x]]
SwappedAt == {i \in DOMAIN oldKeys :
                 i + 1 \in DOMAIN oldKeys /\ newKeys = SwapAt(oldKeys, i)}

\* C10: when the new keys are the old keys with two adjacent keys
\* exchanged, both parts are reused, exactly one part is moved and no part
\* is created or removed.
C10_AdjacentSwap ==
    Returned =>
        \A i \in SwappedAt :
            /\ newParts = SwapAt(oldParts0, i)
            /\ Len(moved) = 1
            /\ moved[1] \in {oldParts0[i], oldParts0[i + 1]}
            /\ created = <<>>
            /\ removed = <<>>

C10_Witness ==
    /\ Returned
    /\ 1 \in SwappedAt
    /\ OldLen = 4
    /\ Len(moved) = 1

\* The marker nodes of a child list, in order.
Markers(d) == SelectSeq(d, IsMarker)

\* C11: a call whose keys are the keys of the call before it, in the same
\* order, moves, creates and removes nothing, matches every item by the
\* head/head rule, keeps every part at its index and leaves the order of
\* the nodes as it was.
C11_Idempotence ==
    Returned /\ newKeys = oldKeys =>
        /\ moved = <<>>
        /\ created = <<>>
        /\ removed = <<>>
        /\ Len(rules) = NewLen
        /\ \A x \in 1..Len(rules) : rules[x] = "headHead"
        /\ newParts = oldParts0
        /\ Markers(dom) = Markers(dom0)
        /\ Len(dom) = Len(dom0)

C11_Witness ==
    /\ Returned /\ newKeys = oldKeys
    /\ OldLen = 3
    /\ Len(rules) = 3
    /\ Len(dom) = 11

\* The child list made of the ranges of parts[from..], part i rendering
\* values[i].
RECURSIVE ValueRanges(_, _, _)
ValueRanges(parts, values, from) ==
    IF from \notin DOMAIN values THEN <<>>
    ELSE <<startNode(parts[from]), contentNode(parts[from], values[from]),
           endNode(parts[from])>> \o ValueRanges(parts, values, from + 1)

Min(a, b) == IF a <= b THEN a ELSE b

\* The item that part rendered when the call began.
ItemBefore(part) ==
    dom0[CHOOSE i \in 1..Len(dom0) :
            dom0[i].t = "content" /\ dom0[i].part = part].val.item

\* C12: without a keyFn the keys are the indices, so every loop iteration
\* of the main loop takes the head/head branch: the first min(m, n) parts
\* stay at their index and are committed the value now at that index, n - m
\* parts are created at the end when n > m, the last m - n parts are removed
\* when m > n, and no part is moved.
C12_NoKeyFn ==
    /\ InMainLoop => AtHeadHead
    /\ Returned =>
          /\ newKeys = [i \in DOMAIN newValues |-> i]
          /\ \A i \in 0..(Min(OldLen, NewLen) - 1) :
                /\ newParts[i] = oldParts0[i]
                /\ <<oldParts0[i], newValues[i]>> \in SeqRange(commits)
          /\ created = [x \in 1..(NewLen - Min(OldLen, NewLen)) |->
                           newParts[OldLen + x - 1]]
          /\ removed = [x \in 1..(OldLen - Min(OldLen, NewLen)) |->
                           oldParts0[NewLen + x - 1]]
          /\ moved = <<>>
          /\ dom = <<ContainerStart>> \o ValueRanges(newParts, newValues, 0)
                     \o <<ContainerEnd>>

\* An item is inserted at the front of a list of two different items: both
\* parts stay and render another item than before.
C12_Witness ==
    /\ Returned
    /\ OldLen = 2 /\ NewLen = 3
    /\ \A i \in 1..2 : newValues[i].item = ItemBefore(oldParts0[i - 1])
    /\ \A i \in 0..1 : /\ newParts[i] = oldParts0[i]
                        /\ newValues[i].item # ItemBefore(oldParts0[i])
    /\ Len(created) = 1 /\ moved = <<>>

\* C13: a call on a part that is not a NodePart ends at once with the usage
\* error of line 164 (a call on a NodePart goes from "idle" to "run"): no
\* key or value was derived from the items, no node of the container was
\* touched and the persisted lists are as they were.
C13_UsageError ==
    [][pc = "idle" /\ pc' = "returned" =>
          /\ thrown' = UsageError
          /\ newKeys' = EmptyArray /\ newValues' = EmptyArray
          /\ commits' = <<>> /\ created' = <<>> /\ removed' = <<>>
          /\ moved' = <<>> /\ hooks' = <<>>
          /\ dom' = dom
          /\ partListCache' = partListCache
          /\ keyListCache' = keyListCache]_vars

C13_Witness ==
    /\ pc = "returned" /\ thrown = UsageError
    /\ partListCache.defined /\ ArrLen(partListCache.list) = 3
    /\ Len(dom) = 11

\* C14 as stated: every node the handler was called for is still a child
\* of the container if the handler called preventDefault(), and otherwise
\* is no longer one, no error having been raised.
C14_HookDecides ==
    \A x \in 1..Len(hooks) :
        IF hooks[x].prevented THEN InDom(dom, hooks[x].target)
        ELSE ~InDom(dom, hooks[x].target) /\ thrown = "none"

\* The old parts whose key is not among the new keys.
GoneParts ==
    {oldParts0[i] : i \in {j \in DOMAIN oldParts0 :
                              /\ IsPart(oldParts0[j])
                              /\ oldKeys[j] \notin NewKeySet}}

\* The invocations of the handler for the nodes of part.
HooksOf(part) == {x \in 1..Len(hooks) : hooks[x].target.part = part}

\* C15 as stated: when a call with a handler that leaves the nodes alone
\* has ended, the handler has been called exactly once for the rendered
\* node of each old part that is not kept, in document order and while the
\* node was still attached, and never for a marker or for a node of a part
\* in newParts.
C15_HookOncePerNode ==
    pc = "returned" /\ onRemove \in {"commit", "prevent"} =>
        /\ \A part \in GoneParts : Cardinality(HooksOf(part)) = 1
        /\ \A x \in 1..Len(hooks) :
              /\ ~IsMarker(hooks[x].target)
              /\ hooks[x].attached
              /\ hooks[x].target.part \notin Range(newParts)
        /\ \A x, y \in 1..Len(hooks) :
              x < y /\ hooks[x].target.part = hooks[y].target.part =>
                  IndexOf(dom0, hooks[x].target) < IndexOf(dom0, hooks[y].target)

\* The removal of a part with a handler has ended, its end boundary being
\* a node.
RemovedWithHandler ==
    /\ fn.name = "removePart" /\ fn.done
    /\ fn.handler # "undefined"
    /\ fn.end # NullNode

\* The loop came to a node that was not a child of the container, or the
\* container was missing.
ReachedDetached ==
    \/ fn.container = NullNode
    \/ \E x \in 1..Len(fn.visited) : ~fn.visited[x].attached

Without(d, run) == SelectSeq(d, LAMBDA n : n \notin SeqRange(run))
PlacedBefore(d, run, before) ==
    IF before = NullNode THEN Without(d, run) \o run
    ELSE LET rest == Without(d, run)
             i == IndexOf(rest, before)
         IN SubSeq(rest, 1, i - 1) \o run \o SubSeq(rest, i, Len(rest))

KeyOf(result) == join(StringsOf(result.strings), marker)

\* C18: at any time, two results of one type whose strings join to the same
\* text have been given the same Template, whether or not their strings
\* arrays are one object, and no two Templates were constructed for the
\* same joined text.
C18_OneTemplatePerContent ==
    /\ \A r1, r2 \in handedOut :
          r1.type = r2.type /\ KeyOf(r1) = KeyOf(r2) =>
              r1.template = r2.template
    /\ \A i, j \in 1..Len(templates) :
          KeyOf(templates[i]) = KeyOf(templates[j]) => i = j

\* Three strings arrays of one type, two with the same strings and one that
\* only joins to the same text, share a Template.
C18_Witness ==
    \E r1, r2, r3 \in handedOut :
        /\ r1.type = r2.type /\ r2.type = r3.type
        /\ r1.strings # r2.strings
        /\ StringsOf(r1.strings) = StringsOf(r2.strings)
        /\ StringsOf(r3.strings) # StringsOf(r1.strings)
        /\ KeyOf(r3) = KeyOf(r1)
        /\ r1.template = r2.template /\ r2.template = r3.template
        /\ Len(templates) = 2

\* C19 as stated: two results of different type have never been given the
\* same Template.
C19_TemplatePerType ==
    \A r1, r2 \in handedOut :
        r1.type # r2.type => r1.template # r2.template

\* C20: a call removes only old parts whose key is not among the new keys,
\* none of them twice and none that is in newParts; when it returns it has
\* removed every such part, and their nodes are gone from the container.
C20_RemovedAreGone ==
    /\ pc \in {"run", "returned"} =>
          /\ SeqRange(removed) \subseteq GoneParts
          /\ Cardinality(SeqRange(removed)) = Len(removed)
          /\ SeqRange(removed) \cap Range(newParts) = {}
    /\ Returned =>
          /\ SeqRange(removed) = GoneParts
          /\ \A i \in 1..Len(dom) : dom[i].part \notin GoneParts

\* One part is removed in the main loop and one in the final loop, and two
\* parts are kept.
C20_Witness ==
    /\ Returned
    /\ Len(removed) = 2
    /\ \E x \in 1..Len(rules) : rules[x] \in {"removeHead", "removeTail"}
    /\ \E x \in 1..Len(rules) : rules[x] = "remove"
    /\ Cardinality(RetainedIdx) = 2

\* The ranges of the parts at the indices from..to of parts, part i
\* rendering values[i]; a tombstone has no range.
RECURSIVE RangesOf(_, _, _, _)
RangesOf(parts, values, from, to) ==
    IF from > to THEN <<>>
    ELSE (IF Get(parts, from) = Null THEN <<>>
          ELSE <<startNode(Get(parts, from)),
                 contentNode(Get(parts, from), values[from]),
                 endNode(Get(parts, from))>>)
         \o RangesOf(parts, values, from + 1, to)

\* What the old parts render when a call begins: the values of the call
\* before it.
OldValues == [i \in DOMAIN oldKeys |-> template(oldKeys[i], i)]

\* The node a part is inserted before at the tail (lines 27-28, 43-44).
TailRef ==
    IF IsPart(Get(newParts, newTail + 1))
    THEN startNode(newParts[newTail + 1]) ELSE ContainerEnd

\* C21: at the start of every iteration of the main loop the children of
\* the container are the ranges of newParts[0..newHead-1] in index order,
\* then the ranges of the old parts in oldHead..oldTail that are no
\* tombstone, in old order, then the ranges of newParts[newTail+1..n-1] in
\* index order; so the old part at oldHead starts where the next new head
\* part belongs, and newParts[newTail+1] (or the end marker) starts where
\* the next new tail part ends.
C21_LoopInvariant ==
    InMainLoop =>
        /\ \A i \in (0..(newHead - 1)) \cup ((newTail + 1)..(NewLen - 1)) :
              IsPart(Get(newParts, i))
        /\ dom = <<ContainerStart>>
                   \o RangesOf(newParts, newValues, 0, newHead - 1)
                   \o RangesOf(oldParts, OldValues, oldHead, oldTail)
                   \o RangesOf(newParts, newValues, newTail + 1, NewLen - 1)
                   \o <<ContainerEnd>>
        /\ ~AtNullHead =>
              PositionOf(startNode(oldParts[oldHead])) = 3 * newHead + 2
        /\ PositionOf(TailRef) = Len(dom) - 3 * (NewLen - 1 - newTail)

\* A tombstone is inside the window, and parts were placed both at the head
\* and at the tail, one of them by a move.
C21_Witness ==
    /\ InMainLoop
    /\ \E i \in oldHead..oldTail : oldParts[i] = Null
    /\ newHead >= 1
    /\ newTail < NewLen - 1
    /\ Len(moved) >= 2

\* The items still between the pointers.
OldWindow == oldTail - oldHead + 1
NewWindow == newTail - newHead + 1

\* An iteration advances a head or retreats a tail, and moves no pointer
\* the other way.
Advances ==
    /\ oldHead' >= oldHead /\ newHead' >= newHead
    /\ oldTail' <= oldTail /\ newTail' <= newTail
    /\ oldHead' > oldHead \/ newHead' > newHead
          \/ oldTail' < oldTail \/ newTail' < newTail

\* C22: every call ends.  Each iteration of the main loop advances oldHead
\* or newHead or retreats oldTail or newTail and moves no pointer back, an
\* iteration of the add loop advances newHead alone and one of the remove
\* loop oldHead alone, so the iterations made and the items still between
\* the pointers never exceed len(oldParts) + len(newValues); and the call
\* leaves its loops only when both windows are empty.
C22_Terminates ==
    [][/\ (InMainLoop /\ pc' = "run") => Advances
       /\ (InAddLoop /\ pc' = "run") =>
             /\ newHead' = newHead + 1
             /\ UNCHANGED <<oldHead, oldTail, newTail>>
       /\ (InRemoveLoop /\ pc' = "run") =>
             /\ oldHead' = oldHead + 1
             /\ UNCHANGED <<oldTail, newHead, newTail>>
       /\ (pc = "run" /\ pc' = "returned" /\ thrown' = "none") =>
             OldWindow <= 0 /\ NewWindow <= 0
       /\ pc' = "run" =>
             /\ OldWindow' >= 0 /\ NewWindow' >= 0
             /\ Len(rules') + OldWindow' + NewWindow'
                   <= ArrLen(oldKeys') + ArrLen(newKeys')]_vars

\* A call went through all three kinds of main-loop iteration and a
\* trailing loop, and has ended.
C22_Witness ==
    /\ Returned
    /\ OldLen >= 3 /\ NewLen >= 3
    /\ \E x \in 1..Len(rules) : rules[x] \in {"skipHead", "skipTail"}
    /\ \E x \in 1..Len(rules) : rules[x] = "reuse"
    /\ \E x \in 1..Len(rules) : rules[x] \in {"add", "remove"}
    /\ Len(rules) >= 5

\* The branch the iteration just made took.
LastRule == rules'[Len(rules')]

\* C23: inside a call a null is written into oldParts only by the reuse
\* case of the stuck branch, into a slot strictly between oldHead and
\* oldTail that held the part now placed at newHead; a null stays, and a
\* pointer leaves a nulled slot only by a skip or by the remove loop, which
\* removes nothing for it.  So no part is in newParts twice, no old part
\* still to be scanned is in newParts, and no part in newParts was removed.
C23_Tombstones ==
    [][(pc = "run" /\ pc' \in {"run", "returned"}) =>
          /\ DOMAIN oldParts' = DOMAIN oldParts
          /\ \A i \in DOMAIN oldParts :
                /\ oldParts[i] = Null => oldParts'[i] = Null
                /\ oldParts[i] # Null /\ oldParts'[i] = Null =>
                      /\ LastRule = "reuse"
                      /\ oldHead < i /\ i < oldTail
                      /\ newParts'[newHead] = oldParts[i]
                      /\ newHead' = newHead + 1
                /\ oldParts[i] # Null => oldParts'[i] \in {oldParts[i], Null}
          /\ (oldHead' > oldHead /\ oldParts[oldHead] = Null) =>
                /\ LastRule \in {"skipHead", "remove"}
                /\ UNCHANGED <<dom, removed, newParts>>
          /\ (oldTail' < oldTail /\ oldParts[oldTail] = Null) =>
                /\ LastRule = "skipTail"
                /\ UNCHANGED <<dom, removed, newParts>>
          /\ \A i, j \in DOMAIN newParts' :
                newParts'[i] = newParts'[j] => i = j
          /\ \A i \in oldHead'..oldTail' :
                oldParts'[i] # Null => oldParts'[i] \notin Range(newParts')
          /\ SeqRange(removed') \cap Range(newParts') = {}]_vars

\* An old part was reused by the stuck branch and its nulled slot skipped
\* when oldHead came to it.
C23_Witness ==
    /\ Returned
    /\ \E x, y \in 1..Len(rules) :
          x < y /\ rules[x] = "reuse" /\ rules[y] = "skipHead"
    /\ \E i \in DOMAIN oldParts :
          oldParts[i] = Null /\ oldParts0[i] \in Range(newParts)

\* The branches of the final else clause (lines 421-457).
StuckRules == {"removeHead", "removeTail", "create", "reuse"}

\* m maps exactly the keys at the indices head..tail of keys, each to its
\* index.
IsMapOver(m, keys, head, tail) ==
    /\ m.defined
    /\ DOMAIN m.map = {keys[i] : i \in head..tail}
    /\ \A k \in DOMAIN m.map :
          m.map[k] \in head..tail /\ keys[m.map[k]] = k

\* C24: in a call the two maps are built together, by the first iteration
\* that takes the stuck branch and over the windows oldHead..oldTail and
\* newHead..newTail as that iteration finds them; once built they never
\* change while the call runs, and they are not built as long as every
\* iteration was a skip or a head/tail match.
C24_MapsBuiltOnce ==
    [][(pc = "run" /\ rules' # rules) =>
          /\ newKeyToIndexMap'.defined = oldKeyToIndexMap'.defined
          /\ newKeyToIndexMap.defined =>
                UNCHANGED <<newKeyToIndexMap, oldKeyToIndexMap>>
          /\ newKeyToIndexMap'.defined =
                (\E x \in 1..Len(rules') : rules'[x] \in StuckRules)
          /\ (~newKeyToIndexMap.defined /\ newKeyToIndexMap'.defined) =>
                /\ LastRule \in StuckRules
                /\ \A x \in 1..Len(rules) : rules[x] \notin StuckRules
                /\ IsMapOver(newKeyToIndexMap', newKeys, newHead, newTail)
                /\ IsMapOver(oldKeyToIndexMap', oldKeys, oldHead, oldTail)]_vars

\* The maps were built after a head/tail match had shrunk the windows, and
\* a later stuck iteration found them built, over windows wider than its
\* own.
C24_Witness ==
    /\ pc = "run"
    /\ newKeyToIndexMap.defined
    /\ \E x, y, z \in 1..Len(rules) :
          /\ x < y /\ y < z
          /\ rules[x] \in HeadTailRules
          /\ rules[y] \in StuckRules /\ rules[z] \in StuckRules
    /\ ~IsMapOver(newKeyToIndexMap, newKeys, newHead, newTail)
    /\ ~IsMapOver(oldKeyToIndexMap, oldKeys, oldHead, oldTail)

\* The key lists [1, 2, 3] and [1, 3, 2].
Keys123 == [i \in 0..2 |-> i + 1]
Keys132 == SwapAt(Keys123, 1)

\* C25 as stated: the call that turns [1, 2, 3] into [1, 3, 2] takes the
\* stuck branch, builds the maps and reuses an old part found through
\* oldKeyToIndexMap.
C25_SwapViaStuck ==
    Returned /\ oldKeys = Keys123 /\ newKeys = Keys132 =>
        /\ MapsBuilt
        /\ \E x \in 1..Len(rules) : rules[x] = "reuse"

\* C25 (amended): the call that turns [1, 2, 3] into [1, 3, 2] matches 1
\* head to head, then 2 by the old-head/new-tail rule, which moves its part
\* behind the part of 3, then 3 head to head; it never takes the stuck
\* branch or builds the maps, reuses both parts, makes one move and creates
\* and removes nothing.
C25_SwapViaHeadTail ==
    Returned /\ oldKeys = Keys123 /\ newKeys = Keys132 =>
        /\ rules = <<"headHead", "headTail", "headHead">>
        /\ ~MapsBuilt
        /\ newParts = SwapAt(oldParts0, 1)
        /\ moved = <<oldParts0[1]>>
        /\ created = <<>>
        /\ removed = <<>>

C25_Witness ==
    /\ Returned /\ oldKeys = Keys123 /\ newKeys = Keys132
    /\ Len(moved) = 1
    /\ dom = <<ContainerStart>> \o RangesFrom(SwapAt(oldParts0, 1), Keys132, 0)
               \o <<ContainerEnd>>

\* The removal of a part with a handler that never calls preventDefault()
\* has ended, the part's nodes having been in place.
RemovedByCommittingHandler ==
    /\ fn.name = "removePart" /\ fn.done
    /\ fn.handler = "commit"
    /\ fn.container = ContainerElement
    /\ Reaches(dom0, startNode(fn.part), fn.end)

\* C26 as stated: the removal of a part with a handler that never calls
\* preventDefault() ends without error and leaves the children that
\* removeNodes leaves on the same range: the nodes from the part's start
\* marker to its end marker are gone and the others are as they were.
C26_HookedRemovalIsRemoveNodes ==
    RemovedByCommittingHandler =>
        /\ thrown = "none"
        /\ dom = removeNodes(dom0, startNode(fn.part), fn.end)
        /\ \A i \in 1..Len(dom) : dom[i].part # fn.part

\* An exception has left the call.
Aborted == pc = "returned" /\ thrown # "none"

\* C27: when an exception leaves a call, newParts and newKeys are not
\* persisted: the persisted keys are the old keys, and the persisted part
\* list is the old part array as the pass left it, a null standing in
\* every slot whose part the pass reused out of order.  Nothing is undone:
\* the parts the pass placed, moved or created stay where it put them, so
\* that the children differ from those the call found.
C27_NoRollback ==
    Aborted =>
        /\ keyListCache = [defined |-> TRUE, list |-> oldKeys]
        /\ partListCache = [defined |-> TRUE, list |-> oldParts]
        /\ \A i \in DOMAIN oldParts0 :
              /\ oldParts[i] \in {oldParts0[i], Null}
              /\ oldParts[i] # oldParts0[i] =>
                    oldParts0[i] \in Range(newParts)
        /\ \A k \in 1..Len(created) : InDom(dom, startNode(created[k]))
        /\ (moved # <<>> \/ created # <<>>) => Markers(dom) # Markers(dom0)
        /\ Len(commits) > 0 =>
              \E k \in 1..Len(commits) :
                  InDom(dom, contentNode(commits[k][1], commits[k][2]))

\* The call reused a part out of order and moved it, its slot in the
\* persisted list is null, and a later removal threw: the persisted list
\* still names the moved part's old neighbours in the old order.
C27_Witness ==
    /\ Aborted
    /\ \E i \in DOMAIN partListCache.list : partListCache.list[i] = Null
    /\ Len(moved) > 0
    /\ keyListCache.list # newKeys
    /\ ~ContainerIntact

\* C28: once templateFactory has returned a Template for a strings array
\* under a type, every later call with that type and that strings array
\* returns the same Template without looking into keyedTemplates and
\* without constructing a Template; and no call replaces or removes an
\* entry of templateCaches, of one of its maps or of keyedTemplates.
C28_IdentityHits ==
    [][fn'.name = "templateFactory" =>
          /\ \A r \in handedOut :
                (r.type = fn'.result.type
                    /\ r.strings = fn'.result.strings) =>
                    /\ fn'.returned = r.template
                    /\ ~fn'.keyed /\ ~fn'.constructed
                    /\ UNCHANGED <<keyedTemplates, templates>>
          /\ \A type \in DOMAIN templateCaches :
                /\ type \in DOMAIN templateCaches'
                /\ \A strings \in DOMAIN templateCaches[type] :
                      /\ strings \in DOMAIN templateCaches'[type]
                      /\ templateCaches'[type][strings] =
                            templateCaches[type][strings]
          /\ \A key \in DOMAIN keyedTemplates :
                /\ key \in DOMAIN keyedTemplates'
                /\ keyedTemplates'[key] = keyedTemplates[key]
          /\ \A i \in 1..Len(templates) : templates'[i] = templates[i]]_vars

\* A strings array that was given its Template through keyedTemplates, the
\* Template having been constructed for another strings array, is asked for
\* again and answered from templateCaches.
C28_Witness ==
    /\ fn.name = "templateFactory"
    /\ ~fn.keyed
    /\ templates[fn.returned].strings # fn.result.strings
    /\ Len(templates) >= 2
    /\ Cardinality(handedOut) >= 4

\* The step is a call of unsafeHTML.
UnsafeCalled == fn'.name = "unsafeHTML" /\ fn' # fn

HoldersOf(part) ==
    (IF part \in SeqRange(committedValue) THEN {InContainer} ELSE {})
        \cup {k \in DOMAIN _templateCache : part \in SeqRange(_templateCache[k])}

\* Every child part is held by exactly one array, once, and its nodes are
\* in the container part of that array; the container part holds exactly
\* one child part, which renders the value of the call, and a cached
\* container part holds at most one.
EachPartInOnePlace ==
    /\ \A part \in DOMAIN childParts :
          /\ HoldersOf(part) = {childParts[part].place}
    /\ Len(committedValue) = 1
    /\ committedValue[1] \in DOMAIN childParts
    /\ childParts[committedValue[1]].value = fn.v
    /\ \A k \in DOMAIN _templateCache :
          /\ Len(_templateCache[k]) <= 1
          /\ \A i \in 1..Len(_templateCache[k]) :
                /\ _templateCache[k][i] \in DOMAIN childParts
                /\ getStringsFromTemplateResult(
                      childParts[_templateCache[k][i]].value) = k

\* The value is a template result of other strings than the previous
\* value, or one of them is no template result.
Switches(value, v) ==
    \/ isTemplateResult(value) # isTemplateResult(v)
    \/ /\ isTemplateResult(value) /\ isTemplateResult(v)
       /\ (IF value.type = "compiled" THEN value.h ELSE value.strings) #
             (IF v.type = "compiled" THEN v.h ELSE v.strings)

====
